---------------------------- MODULE Spec2Model ----------------------------
(***************************************************************************)
(* A model of the school-management backend `progressive`: the data store  *)
(* (Django models of progressive_app/models.py) and the request handlers   *)
(* of progressive_app/views.py that record marks, derive grades, allocate  *)
(* admission numbers, validate semesters and filter the dashboard feeds.   *)
(*                                                                         *)
(* Text that the code parses or formats (submitted scores, admission       *)
(* numbers, dates, names) is a sequence of one-character strings, so that  *)
(* float(), int(), zfill(), strip() and strptime() are computed character  *)
(* by character as the code computes them.  A number is a pair             *)
(* (n, e) standing for n / 10^e: a Python float read from a decimal        *)
(* literal, or a Decimal read back from the store (e = 2).                 *)
(***************************************************************************)
EXTENDS Integers, Sequences, FiniteSets, Bags, TLC

VARIABLES
    users,              \* table User: set of rows
    departments,        \* table Department: set of rows
    courses,            \* table Course: set of rows
    subjects,           \* table Subject: set of rows
    classes,            \* table SchoolClass: set of rows
    semesters,          \* table Semester: set of rows
    teacher_subjects,   \* table TeacherSubject: bag of rows
    marks,              \* table Mark: bag of rows
    announcements,      \* table Announcement: sequence of rows in created_at order
    events,             \* table Event: bag of rows
    inflight,           \* student_create requests between their scan and their insert
    orm_update_fields,  \* whether QuerySet.update_or_create saves with update_fields
    request,            \* the request handled last
    response            \* its response

vars == <<users, departments, courses, subjects, classes, semesters, teacher_subjects,
          marks, announcements, events, inflight, orm_update_fields, request, response>>

(* The academic hierarchy: Department -> Course -> {SchoolClass, Subject} *)
academics == <<departments, courses, subjects, classes>>

store == <<users, academics, semesters, teacher_subjects, marks, announcements, events>>

-----------------------------------------------------------------------------
(* Text *)

Str0 == <<>>

Digits == <<"0", "1", "2", "3", "4", "5", "6", "7", "8", "9">>

IsDigit(c) == \E i \in 1..10 : Digits[i] = c

DigitVal(c) == (CHOOSE i \in 1..10 : Digits[i] = c) - 1

AllDigits(s) == \A i \in 1..Len(s) : IsDigit(s[i])

RECURSIVE StrToNat(_)
StrToNat(s) ==
    IF s = <<>> THEN 0
    ELSE StrToNat(SubSeq(s, 1, Len(s) - 1)) * 10 + DigitVal(s[Len(s)])

RECURSIVE NatToStr(_)
NatToStr(n) ==
    IF n < 10 THEN <<Digits[n + 1]>>
    ELSE NatToStr(n \div 10) \o <<Digits[(n % 10) + 1]>>

RECURSIVE NumDigits(_)
NumDigits(n) == IF n < 10 THEN 1 ELSE 1 + NumDigits(n \div 10)

Abs(n) == IF n < 0 THEN -n ELSE n

StartsWith(s, p) == Len(s) >= Len(p) /\ SubSeq(s, 1, Len(p)) = p

(* str.replace(p, ""): every occurrence of p removed, left to right *)
RECURSIVE Remove(_, _)
Remove(s, p) ==
    IF Len(s) < Len(p) \/ Len(s) = 0 THEN s
    ELSE IF StartsWith(s, p) THEN Remove(SubSeq(s, Len(p) + 1, Len(s)), p)
    ELSE <<s[1]>> \o Remove(Tail(s), p)

(* str.zfill(w) of an unsigned numeral *)
RECURSIVE Zfill(_, _)
Zfill(s, w) == IF Len(s) >= w THEN s ELSE Zfill(<<"0">> \o s, w)

(* str.strip() of a text whose only whitespace is the blank *)
RECURSIVE Strip(_)
Strip(s) ==
    IF Len(s) = 0 THEN s
    ELSE IF s[1] = " " THEN Strip(Tail(s))
    ELSE IF s[Len(s)] = " " THEN Strip(SubSeq(s, 1, Len(s) - 1))
    ELSE s

(* The text after an optional sign, and the sign *)
Unsigned(s) == IF Len(s) > 0 /\ s[1] \in {"-", "+"} THEN Tail(s) ELSE s

Sign(s) == IF Len(s) > 0 /\ s[1] = "-" THEN -1 ELSE 1

(* int(): an optional sign and digits; any other text raises ValueError     *)
(* (ok = FALSE).  The texts of this model hold no blank and no underscore.  *)
ParseDigits(body, sign) ==
    IF Len(body) > 0 /\ AllDigits(body)
    THEN [ok |-> TRUE, n |-> sign * StrToNat(body)]
    ELSE [ok |-> FALSE, n |-> 0]

ParseInt(s) == ParseDigits(Unsigned(s), Sign(s))

-----------------------------------------------------------------------------
(* Python values held by Mark.score and by request.POST.get(): None, a str, *)
(* or a number n / 10^e.                                                    *)

PyNone == [t |-> "None", s |-> <<>>, n |-> 0, e |-> 0]

PyStr(s) == [t |-> "str", s |-> s, n |-> 0, e |-> 0]

PyNum(n, e) == [t |-> "num", s |-> <<>>, n |-> n, e |-> e]

(* float(): a decimal literal, an optional sign, digits, an optional point.  *)
(* None raises TypeError, any other text raises ValueError (ok = FALSE).     *)
(* The texts the requests of this model submit hold no exponent, blank,      *)
(* "inf" or "nan".                                                           *)
PointAt(body) ==
    IF \E i \in 1..Len(body) : body[i] = "."
    THEN CHOOSE i \in 1..Len(body) : body[i] = "."
    ELSE Len(body) + 1

ParseDecimal(ip, fp, sign) ==
    IF AllDigits(ip) /\ AllDigits(fp) /\ Len(ip) + Len(fp) > 0
    THEN [ok |-> TRUE, n |-> sign * StrToNat(ip \o fp), e |-> Len(fp)]
    ELSE [ok |-> FALSE, n |-> 0, e |-> 0]

ParseAt(body, point, sign) ==
    ParseDecimal(SubSeq(body, 1, point - 1), SubSeq(body, point + 1, Len(body)), sign)

ParseFloat(s) == ParseAt(Unsigned(s), PointAt(Unsigned(s)), Sign(s))

(* float(v) for a Python value v *)
ToFloat(v) ==
    CASE v.t = "num" -> [ok |-> TRUE, n |-> v.n, e |-> v.e]
      [] v.t = "str" -> ParseFloat(v.s)
      [] OTHER       -> [ok |-> FALSE, n |-> 0, e |-> 0]

(* x >= k for a number x = n / 10^e and an integer k *)
GE(x, k) == x.n >= k * (10 ^ x.e)

-----------------------------------------------------------------------------
(* Grade derivation *)

(* The cascade of Mark.calculate_grade with the first threshold exclusive   *)
(* (score > 90)                                                             *)
GradeOf_exclusive(f) ==
    CASE ~f.ok     -> "F"
      [] GE(f, 90) /\ f.n # 90 * (10 ^ f.e) -> "A"
      [] GE(f, 80) -> "B"
      [] GE(f, 70) -> "C"
      [] GE(f, 60) -> "D"
      [] OTHER     -> "F"

(* The body of Mark.calculate_grade for the outcome f of float(self.score): *)
(* ValueError and TypeError give "F"                                        *)
GradeOf(f) ==
    CASE ~f.ok     -> "F"
      [] GE(f, 90) -> "A"
      [] GE(f, 80) -> "B"
      [] GE(f, 70) -> "C"
      [] GE(f, 60) -> "D"
      [] OTHER     -> "F"

(* Mark.calculate_grade *)
calculate_grade(score) == GradeOf(ToFloat(score))

(* The body of get_grade_and_gpa for the outcome f of float(score), which   *)
(* is not guarded: a score float() cannot read raises.  gpa is the grade    *)
(* point 4.0 .. 0.0.                                                        *)
GradeAndGpaOf(f) ==
    CASE ~f.ok     -> [raised |-> TRUE, grade |-> "", gpa |-> 0]
      [] GE(f, 90) -> [raised |-> FALSE, grade |-> "A", gpa |-> 4]
      [] GE(f, 80) -> [raised |-> FALSE, grade |-> "B", gpa |-> 3]
      [] GE(f, 70) -> [raised |-> FALSE, grade |-> "C", gpa |-> 2]
      [] GE(f, 60) -> [raised |-> FALSE, grade |-> "D", gpa |-> 1]
      [] OTHER     -> [raised |-> FALSE, grade |-> "F", gpa |-> 0]

(* get_grade_and_gpa *)
get_grade_and_gpa(score) == GradeAndGpaOf(ToFloat(score))

-----------------------------------------------------------------------------
(* Mark.score = DecimalField(max_digits=5, decimal_places=2,                *)
(* validators=[MinValueValidator(0), MaxValueValidator(100)]).  Model.save  *)
(* runs no validator; on the way to the store a float is read with a        *)
(* precision of max_digits significant digits and then quantized to         *)
(* decimal_places places, rounding half to even, and a result of more than  *)
(* max_digits digits raises decimal.InvalidOperation.                       *)

MinScore == 0

MaxScore == 100

DecimalPlaces == 2

MaxDigits == 5

(* NULL in the column score (null=True), written as a number of more        *)
(* digits than the column holds                                             *)
NullScore == 10 ^ MaxDigits

(* m.score of a row read from the store: None for NULL, else the Decimal *)
ScoreOf(r) == IF r.score = NullScore THEN PyNone ELSE PyNum(r.score, DecimalPlaces)

RoundHalfEven(n, d) ==
    LET a  == Abs(n)
        q  == a \div d
        r  == a % d
        up == (2 * r > d) \/ (2 * r = d /\ q % 2 = 1)
        m  == IF up THEN q + 1 ELSE q
    IN  IF n < 0 THEN -m ELSE m

DropDigits(x, k) ==
    IF k <= 0 THEN x ELSE [ok |-> TRUE, n |-> RoundHalfEven(x.n, 10 ^ k), e |-> x.e - k]

ToPrecision(x) == DropDigits(x, NumDigits(Abs(x.n)) - MaxDigits)

Fits(q) == [ok |-> NumDigits(Abs(q)) <= MaxDigits, score |-> q]

Quantize(x) ==
    Fits(IF x.e <= DecimalPlaces
         THEN x.n * (10 ^ (DecimalPlaces - x.e))
         ELSE RoundHalfEven(x.n, 10 ^ (x.e - DecimalPlaces)))

DecimalPrep(x) == Quantize(ToPrecision(x))

(* score_value not in (None, "") and self.score not in [None, ""] *)
ScoreGiven(score_value) == score_value # PyNone /\ score_value # PyStr(Str0)

Raised == [raised |-> TRUE, score |-> 0, grade |-> ""]

Written(d, grade) == [raised |-> ~d.ok, score |-> d.score, grade |-> grade]

SaveFloat(f) ==
    IF ~f.ok THEN Raised
    ELSE Written(DecimalPrep(f), calculate_grade(PyNum(f.n, f.e)))

(* Mark.save on an instance whose score attribute is the Python value       *)
(* `score`: what reaches the store.  float() of a text that is no number    *)
(* raises ValueError; grade = None violates the NOT NULL of Mark.grade      *)
(* (CharField, blank=True, null not set).                                   *)
MarkSave(score) == IF ScoreGiven(score) THEN SaveFloat(ToFloat(score)) ELSE Raised

(* The key of Mark.objects.update_or_create in upload_marks *)
MarkKey(st, su, te, cl, se) ==
    [student |-> st, subject |-> su, teacher |-> te, school_class |-> cl, semester |-> se]

KeyOf(row) ==
    MarkKey(row.student, row.subject, row.teacher, row.school_class, row.semester)

MarkRow(key, score, grade) ==
    [student |-> key.student, subject |-> key.subject, teacher |-> key.teacher,
     school_class |-> key.school_class, semester |-> key.semester,
     score |-> score, grade |-> grade]

Matching(m, key) == {r \in BagToSet(m) : KeyOf(r) = key}

RECURSIVE CountRows(_, _)
CountRows(m, rows) ==
    IF rows = {} THEN 0
    ELSE LET r == CHOOSE x \in rows : TRUE
         IN  CopiesIn(r, m) + CountRows(m, rows \ {r})

(* Mark.objects.update_or_create(<key>, defaults={"score": score_value}) on *)
(* the table m.  No row: create() inserts every field.  One row: the        *)
(* defaults are set and the row saved; with update_fields (Django 4.2 on)   *)
(* only the fields of defaults are written, so the grade Mark.save assigned *)
(* stays in memory.  Several rows: get() raises MultipleObjectsReturned.    *)
Upsert(m, key, found, n, saved, update_fields) ==
    CASE n > 1 \/ saved.raised -> [raised |-> TRUE, marks |-> m]
      [] n = 0 ->
           [raised |-> FALSE,
            marks |-> m (+) SetToBag({MarkRow(key, saved.score, saved.grade)})]
      [] OTHER ->
           [raised |-> FALSE,
            marks |-> (m (-) SetToBag(found))
                      (+) SetToBag({MarkRow(key, saved.score,
                                            IF update_fields
                                            THEN (CHOOSE r \in found : TRUE).grade
                                            ELSE saved.grade)})]

update_or_create(m, key, score_value, update_fields) ==
    Upsert(m, key, Matching(m, key), CountRows(m, Matching(m, key)),
           MarkSave(score_value), update_fields)

-----------------------------------------------------------------------------
(* The store before any row exists, and the request/response placeholders *)

NoRequest == [view |-> "none"]

NoResponse == [status |-> "none"]

EmptyStore ==
    /\ users = {}
    /\ departments = {}
    /\ courses = {}
    /\ subjects = {}
    /\ classes = {}
    /\ semesters = {}
    /\ teacher_subjects = EmptyBag
    /\ marks = EmptyBag
    /\ announcements = <<>>
    /\ events = EmptyBag

-----------------------------------------------------------------------------
(* Users, roles and the view guards *)

NoAdmission == <<>>

(* A row of User.  first_name stands for the two names, which every view   *)
(* reads and writes together; a foreign key is a primary key, or 0 for      *)
(* NULL.                                                                    *)
UserRow(id, role, adm, first_name, department, course, school_class, semester) ==
    [id |-> id, role |-> role, admission_number |-> adm, first_name |-> first_name,
     department |-> department, course |-> course, school_class |-> school_class,
     semester |-> semester]

(* The primary keys of a table *)
Ids(rows) == {r.id : r \in rows}

(* The primary key the store gives the next row of a table *)
NewPk(rows) == IF rows = {} THEN 1 ELSE (CHOOSE i \in Ids(rows) : \A j \in Ids(rows) : j <= i) + 1

IsAuthenticated(uid) == \E u \in users : u.id = uid

UserById(uid) == CHOOSE u \in users : u.id = uid

RoleOf(uid) == IF IsAuthenticated(uid) THEN UserById(uid).role ELSE "anonymous"

(* A guard that asks for a login and for no role *)
require_role_any(uid, allowed_roles) == IsAuthenticated(uid)

require_role(uid, allowed_roles) ==
    IsAuthenticated(uid) /\ UserById(uid).role \in allowed_roles

(* get_object_or_404(User, id=teacher_id) finds a row *)
TeacherExists_any(teacher_id) == \E u \in users : u.id = teacher_id

(* get_object_or_404(User, id=teacher_id, role="teacher") finds a row *)
TeacherExists(teacher_id) ==
    \E u \in users : u.id = teacher_id /\ u.role = "teacher"

SemesterExists(semester_id) == \E s \in semesters : s.id = semester_id

-----------------------------------------------------------------------------
(* Admission numbers *)

Prefix == <<"p", "r", "o", "g">>

ZfillWidth == 4

(* The admission numbers _next_admission_number scans: those of the rows    *)
(* of role student that start with the prefix (NULL matches no startswith). *)
UsedAdmissionNumbers(us) ==
    {u.admission_number[1] :
        u \in {x \in us : /\ x.role = "student"
                          /\ x.admission_number # NoAdmission
                          /\ StartsWith(x.admission_number[1], Prefix)}}

RECURSIVE MaxNum(_, _)
MaxNum(used, max_num) ==
    IF used = {} THEN max_num
    ELSE LET adm == CHOOSE a \in used : TRUE
             num == ParseInt(Remove(adm, Prefix))
         IN  MaxNum(used \ {adm},
                    IF num.ok /\ num.n > max_num THEN num.n ELSE max_num)

(* The allocation by the number of rows scanned instead of the largest      *)
(* suffix                                                                   *)
next_admission_number_count(us) ==
    Prefix \o Zfill(NatToStr(Cardinality(UsedAdmissionNumbers(us)) + 1), ZfillWidth)

(* _next_admission_number *)
next_admission_number(us) ==
    Prefix \o Zfill(NatToStr(MaxNum(UsedAdmissionNumbers(us), 0) + 1), ZfillWidth)

(* The primary key the store gives the next User row *)
NewId(us) == (CHOOSE i \in {u.id : u \in us} : \A u \in us : u.id <= i) + 1

(* An insert into User with no unique index on admission_number *)
InsertUser_unchecked(us, row) == [raised |-> FALSE, users |-> us \cup {row}]

(* An insert into User: admission_number is unique=True, and NULL collides  *)
(* with nothing; a collision raises IntegrityError and inserts nothing.     *)
InsertUser(us, row) ==
    IF /\ row.admission_number # NoAdmission
       /\ \E u \in us : u.admission_number = row.admission_number
    THEN [raised |-> TRUE, users |-> us]
    ELSE [raised |-> FALSE, users |-> us \cup {row}]

(* student_create up to and including admission_number =                    *)
(* _next_admission_number(): a GET renders the form with the number; a POST *)
(* of worker w goes on to student_create_insert, and other requests may be  *)
(* served in between.                                                       *)
student_create(w, uid, method) ==
    /\ \A f \in inflight : f.worker # w
    /\ request' = [view |-> "student_create", user |-> uid, method |-> method,
                   worker |-> w]
    /\ UNCHANGED <<store, orm_update_fields>>
    /\ \E adm \in {next_admission_number(users)} :
         CASE ~require_role(uid, {"admin"}) ->
                /\ response' = [status |-> "redirect_login"]
                /\ UNCHANGED inflight
           [] method # "POST" ->
                /\ response' = [status |-> "render", admission_number |-> adm]
                /\ UNCHANGED inflight
           [] OTHER ->
                /\ response' = [status |-> "scanned", admission_number |-> adm]
                /\ inflight' = inflight \cup {[worker |-> w, admission_number |-> adm]}

(* The rest of a POST to student_create: the names, the four                *)
(* get_object_or_404 calls and User.objects.create_user.  The e-mail        *)
(* address and the username are the admission number with a fixed suffix,   *)
(* so they collide exactly when the admission number does.                  *)
student_create_insert(w, first_name, department_id, course_id, class_id, semester_id) ==
    \E f \in inflight :
        /\ f.worker = w
        /\ inflight' = inflight \ {f}
        /\ request' = [view |-> "student_create", user |-> 1, method |-> "POST",
                       worker |-> w, first_name |-> first_name]
        /\ UNCHANGED <<academics, semesters, teacher_subjects, marks,
                       announcements, events, orm_update_fields>>
        /\ \E got \in {InsertUser(users, UserRow(NewId(users), "student",
                                                 <<f.admission_number>>, Strip(first_name),
                                                 department_id, course_id, class_id,
                                                 semester_id))} :
             CASE \/ department_id \notin Ids(departments)
                  \/ course_id \notin Ids(courses)
                  \/ class_id \notin Ids(classes)
                  \/ ~SemesterExists(semester_id) ->
                    /\ response' = [status |-> "404"]
                    /\ UNCHANGED users
               [] got.raised ->
                    /\ response' = [status |-> "500",
                                    admission_number |-> f.admission_number]
                    /\ UNCHANGED users
               [] OTHER ->
                    /\ response' = [status |-> "saved",
                                    admission_number |-> f.admission_number]
                    /\ users' = got.users

(* The rows of a bag of Mark or TeacherSubject rows that do not refer to    *)
(* the user pk (on_delete=CASCADE)                                          *)
WithoutUser(b, pk, fields) ==
    [r \in {x \in BagToSet(b) : \A fld \in fields : x[fld] # pk} |-> CopiesIn(r, b)]

student_delete(uid, method, pk) ==
    /\ request' = [view |-> "student_delete", user |-> uid, method |-> method, pk |-> pk]
    /\ UNCHANGED <<academics, semesters, announcements, events, inflight,
                   orm_update_fields>>
    /\ CASE ~require_role(uid, {"admin"}) ->
              /\ response' = [status |-> "redirect_login"]
              /\ UNCHANGED <<users, marks, teacher_subjects>>
         [] ~\E u \in users : u.id = pk /\ u.role = "student" ->
              /\ response' = [status |-> "404"]
              /\ UNCHANGED <<users, marks, teacher_subjects>>
         [] method # "POST" ->
              /\ response' = [status |-> "render"]
              /\ UNCHANGED <<users, marks, teacher_subjects>>
         [] OTHER ->
              /\ response' = [status |-> "deleted"]
              /\ users' = {u \in users : u.id # pk}
              /\ marks' = WithoutUser(marks, pk, {"student", "teacher"})
              /\ teacher_subjects' = WithoutUser(teacher_subjects, pk, {"teacher"})

(* The add view of CustomUserAdmin in the Django admin site: any role and   *)
(* any admission number can be typed in                                     *)
admin_site_add_user(role, adm) ==
    /\ request' = [view |-> "admin:user_add", role |-> role, admission_number |-> adm]
    /\ UNCHANGED <<academics, semesters, teacher_subjects, marks,
                   announcements, events, inflight, orm_update_fields>>
    /\ \E got \in {InsertUser(users, UserRow(NewId(users), role, adm, Str0,
                                              0, 0, 0, 0))} :
         /\ response' = [status |-> IF got.raised THEN "rejected" ELSE "saved"]
         /\ users' = got.users

(* The change view of CustomUserAdmin: the fieldset "Role Information"      *)
(* puts role and admission_number on the form of an existing user.  The     *)
(* form refuses a number another user holds.                                *)
admin_site_change_user(pk, role, adm) ==
    /\ request' = [view |-> "admin:user_change", pk |-> pk, role |-> role,
                   admission_number |-> adm]
    /\ UNCHANGED <<academics, semesters, teacher_subjects, marks,
                   announcements, events, inflight, orm_update_fields>>
    /\ \E status \in {CASE ~IsAuthenticated(pk) -> "404"
                         [] /\ adm # NoAdmission
                            /\ \E u \in users : u.id # pk /\ u.admission_number = adm
                              -> "rejected"
                         [] OTHER -> "saved"} :
         /\ response' = [status |-> status]
         /\ users' = IF status = "saved"
                     THEN {IF u.id = pk
                           THEN [u EXCEPT !.role = role, !.admission_number = adm]
                           ELSE u : u \in users}
                     ELSE users

-----------------------------------------------------------------------------
(* Semesters *)

IsLeap(y) == (y % 4 = 0 /\ y % 100 # 0) \/ y % 400 = 0

DaysIn(y, m) ==
    CASE m \in {4, 6, 9, 11} -> 30
      [] m = 2               -> IF IsLeap(y) THEN 29 ELSE 28
      [] OTHER               -> 31

NoDate == [ok |-> FALSE, date |-> <<0, 0, 0>>]

(* The date of the numbers strptime has read: a year of 1 or more, a month  *)
(* of the calendar and a day of that month, else ValueError                 *)
MakeDate(y, m, d) ==
    IF y >= 1 /\ m \in 1..12 /\ d >= 1 /\ d <= DaysIn(y, m)
    THEN [ok |-> TRUE, date |-> <<y, m, d>>]
    ELSE NoDate

(* %Y is four digits, %m and %d are one or two digits *)
ParseFields(y, m, d) ==
    IF /\ Len(y) = 4 /\ AllDigits(y)
       /\ Len(m) \in 1..2 /\ AllDigits(m)
       /\ Len(d) \in 1..2 /\ AllDigits(d)
    THEN MakeDate(StrToNat(y), StrToNat(m), StrToNat(d))
    ELSE NoDate

(* The positions of the "-" of a text *)
Dashes(s) == {i \in 1..Len(s) : s[i] = "-"}

SplitDate(s, first, last) ==
    ParseFields(SubSeq(s, 1, first - 1), SubSeq(s, first + 1, last - 1),
                SubSeq(s, last + 1, Len(s)))

(* datetime.strptime(s, "%Y-%m-%d").date(), ok = FALSE for ValueError *)
ParseDate(s) ==
    IF Cardinality(Dashes(s)) # 2 THEN NoDate
    ELSE SplitDate(s, CHOOSE i \in Dashes(s) : \A j \in Dashes(s) : i <= j,
                      CHOOSE i \in Dashes(s) : \A j \in Dashes(s) : j <= i)

(* A comparison of the years alone *)
DateGT_years(a, b) == a[1] > b[1]

(* a > b for two dates *)
DateGT(a, b) ==
    \/ a[1] > b[1]
    \/ (a[1] = b[1] /\ a[2] > b[2])
    \/ (a[1] = b[1] /\ a[2] = b[2] /\ a[3] > b[3])

SemesterRow(id, name, sd, ed) ==
    [id |-> id, name |-> name, start_date |-> sd, end_date |-> ed]

NewSemesterId(ss) ==
    IF ss = {} THEN 1
    ELSE (CHOOSE i \in {s.id : s \in ss} : \A s \in ss : s.id <= i) + 1

(* The validation semester_create and semester_edit share: the stripped    *)
(* fields, the two strptime calls and the comparison.                       *)
Validated(name, sd, ed) ==
    CASE ~sd.ok \/ ~ed.ok         -> [ok |-> FALSE, error |-> "format"]
      [] DateGT(sd.date, ed.date) -> [ok |-> FALSE, error |-> "start_after_end"]
      [] OTHER -> [ok |-> TRUE, name |-> name, start_date |-> sd.date,
                   end_date |-> ed.date]

ValidateSemester(name, start_date, end_date) ==
    IF name = Str0 \/ start_date = Str0 \/ end_date = Str0
    THEN [ok |-> FALSE, error |-> "required"]
    ELSE Validated(name, ParseDate(start_date), ParseDate(end_date))

semester_create(uid, method, name, start_date, end_date) ==
    /\ request' = [view |-> "semester_create", user |-> uid, method |-> method,
                   name |-> name, start_date |-> start_date, end_date |-> end_date]
    /\ UNCHANGED <<users, academics, teacher_subjects, marks, announcements,
                   events, inflight, orm_update_fields>>
    /\ \E v \in {ValidateSemester(Strip(name), Strip(start_date), Strip(end_date))} :
         CASE ~require_role(uid, {"admin"}) ->
                /\ response' = [status |-> "redirect_login"]
                /\ UNCHANGED semesters
           [] method # "POST" ->
                /\ response' = [status |-> "render"]
                /\ UNCHANGED semesters
           [] ~v.ok ->
                /\ response' = [status |-> "rejected", error |-> v.error]
                /\ UNCHANGED semesters
           [] OTHER ->
                /\ response' = [status |-> "saved"]
                /\ semesters' = semesters \cup
                       {SemesterRow(NewSemesterId(semesters), v.name, v.start_date,
                                    v.end_date)}

semester_edit(uid, method, pk, name, start_date, end_date) ==
    /\ request' = [view |-> "semester_edit", user |-> uid, method |-> method, pk |-> pk,
                   name |-> name, start_date |-> start_date, end_date |-> end_date]
    /\ UNCHANGED <<users, academics, teacher_subjects, marks, announcements,
                   events, inflight, orm_update_fields>>
    /\ \E v \in {ValidateSemester(Strip(name), Strip(start_date), Strip(end_date))} :
         CASE ~require_role(uid, {"admin"}) ->
                /\ response' = [status |-> "redirect_login"]
                /\ UNCHANGED semesters
           [] ~SemesterExists(pk) ->
                /\ response' = [status |-> "404"]
                /\ UNCHANGED semesters
           [] method # "POST" ->
                /\ response' = [status |-> "render"]
                /\ UNCHANGED semesters
           [] ~v.ok ->
                /\ response' = [status |-> "rejected", error |-> v.error]
                /\ UNCHANGED semesters
           [] OTHER ->
                /\ response' = [status |-> "saved"]
                /\ semesters' = {s \in semesters : s.id # pk} \cup
                       {SemesterRow(pk, v.name, v.start_date, v.end_date)}

-----------------------------------------------------------------------------
(* Announcements, events and the dashboard feeds *)

FeedLimit == 5

Visibilities == {"all", "teacher", "student"}

(* A feed that shows every role every item *)
VisibleTo_unfiltered(role, visibility) == TRUE

(* The filters of dashboard: none for the admin, Q(visibility="all") |      *)
(* Q(visibility="teacher") for a teacher, and Q(visibility="all") |         *)
(* Q(visibility="student") for every other role                             *)
VisibleTo(role, visibility) ==
    CASE role = "admin"   -> TRUE
      [] role = "teacher" -> visibility \in {"all", "teacher"}
      [] OTHER            -> visibility \in {"all", "student"}

(* Announcement...order_by("-created_at")[:k] for the role: the primary     *)
(* keys (positions in creation order) of the k latest rows the role's       *)
(* filter passes, from position i down                                      *)
RECURSIVE LatestAnnouncements(_, _, _, _)
LatestAnnouncements(ann, role, i, k) ==
    IF i = 0 \/ k = 0 THEN <<>>
    ELSE IF VisibleTo(role, ann[i].visibility)
         THEN <<i>> \o LatestAnnouncements(ann, role, i - 1, k - 1)
         ELSE LatestAnnouncements(ann, role, i - 1, k)

(* The rows of Event the role's filter passes *)
EventsFor(ev, role) ==
    [r \in {x \in BagToSet(ev) : VisibleTo(role, x.visibility)} |-> CopiesIn(r, ev)]

Min(a, b) == IF a <= b THEN a ELSE b

(* Event...order_by("-date")[:k]: the k rows of the latest dates; which of  *)
(* the rows of one date make the cut is the store's choice                  *)
LatestEvents(ev, k) ==
    {feed \in SubBag(ev) :
        /\ BagCardinality(feed) = Min(k, BagCardinality(ev))
        /\ \A x \in BagToSet(feed), y \in BagToSet(ev (-) feed) :
              ~DateGT(y.date, x.date)}

dashboard(uid) ==
    /\ IsAuthenticated(uid)
    /\ request' = [view |-> "dashboard", user |-> uid]
    /\ UNCHANGED <<store, inflight, orm_update_fields>>
    /\ \E feed \in LatestEvents(EventsFor(events, RoleOf(uid)), FeedLimit) :
          response' = [status |-> "render",
                       announcements |->
                           LatestAnnouncements(announcements, RoleOf(uid),
                                               Len(announcements), FeedLimit),
                       events |-> feed]

announcements_list(uid) ==
    /\ request' = [view |-> "announcements_list", user |-> uid]
    /\ UNCHANGED <<store, inflight, orm_update_fields>>
    /\ response' = IF ~require_role(uid, {"admin"}) THEN [status |-> "redirect_login"]
                   ELSE [status |-> "render",
                         announcements |->
                             [i \in 1..Len(announcements) |-> Len(announcements) + 1 - i]]

events_list(uid) ==
    /\ request' = [view |-> "events_list", user |-> uid]
    /\ UNCHANGED <<store, inflight, orm_update_fields>>
    /\ response' = IF ~require_role(uid, {"admin"}) THEN [status |-> "redirect_login"]
                   ELSE [status |-> "render", events |-> events]

(* created_at is auto_now_add: a new row is the latest.  The visibility     *)
(* submitted is stored as it is.                                            *)
announcement_create(uid, method, visibility) ==
    /\ request' = [view |-> "announcement_create", user |-> uid, method |-> method,
                   visibility |-> visibility]
    /\ UNCHANGED <<users, academics, semesters, teacher_subjects, marks,
                   events, inflight, orm_update_fields>>
    /\ CASE ~require_role(uid, {"admin"}) ->
              /\ response' = [status |-> "redirect_login"]
              /\ UNCHANGED announcements
         [] method # "POST" ->
              /\ response' = [status |-> "render"]
              /\ UNCHANGED announcements
         [] OTHER ->
              /\ response' = [status |-> "saved"]
              /\ announcements' = Append(announcements, [visibility |-> visibility])

announcement_edit(uid, method, pk, visibility) ==
    /\ request' = [view |-> "announcement_edit", user |-> uid, method |-> method,
                   pk |-> pk, visibility |-> visibility]
    /\ UNCHANGED <<users, academics, semesters, teacher_subjects, marks,
                   events, inflight, orm_update_fields>>
    /\ CASE ~require_role(uid, {"admin"}) ->
              /\ response' = [status |-> "redirect_login"]
              /\ UNCHANGED announcements
         [] pk \notin 1..Len(announcements) ->
              /\ response' = [status |-> "404"]
              /\ UNCHANGED announcements
         [] method # "POST" ->
              /\ response' = [status |-> "render"]
              /\ UNCHANGED announcements
         [] OTHER ->
              /\ response' = [status |-> "saved"]
              /\ announcements' = [announcements EXCEPT ![pk].visibility = visibility]

announcement_delete(uid, method, pk) ==
    /\ request' = [view |-> "announcement_delete", user |-> uid, method |-> method,
                   pk |-> pk]
    /\ UNCHANGED <<users, academics, semesters, teacher_subjects, marks,
                   events, inflight, orm_update_fields>>
    /\ CASE ~require_role(uid, {"admin"}) ->
              /\ response' = [status |-> "redirect_login"]
              /\ UNCHANGED announcements
         [] pk \notin 1..Len(announcements) ->
              /\ response' = [status |-> "404"]
              /\ UNCHANGED announcements
         [] method # "POST" ->
              /\ response' = [status |-> "render"]
              /\ UNCHANGED announcements
         [] OTHER ->
              /\ response' = [status |-> "deleted"]
              /\ announcements' = SubSeq(announcements, 1, pk - 1)
                                  \o SubSeq(announcements, pk + 1, Len(announcements))

EventRow(date, visibility) == [date |-> date, visibility |-> visibility]

(* Event.date is a DateField: a text that is no date raises                 *)
(* ValidationError when the row is saved.                                   *)
event_create(uid, method, date, visibility) ==
    /\ request' = [view |-> "event_create", user |-> uid, method |-> method,
                   date |-> date, visibility |-> visibility]
    /\ UNCHANGED <<users, academics, semesters, teacher_subjects, marks,
                   announcements, inflight, orm_update_fields>>
    /\ \E d \in {ParseDate(Strip(date))} :
         CASE ~require_role(uid, {"admin"}) ->
                /\ response' = [status |-> "redirect_login"]
                /\ UNCHANGED events
           [] method # "POST" ->
                /\ response' = [status |-> "render"]
                /\ UNCHANGED events
           [] ~d.ok ->
                /\ response' = [status |-> "500"]
                /\ UNCHANGED events
           [] OTHER ->
                /\ response' = [status |-> "saved"]
                /\ events' = events (+) SetToBag({EventRow(d.date, visibility)})

(* The row stands for the primary key the URL names *)
event_delete(uid, method, row) ==
    /\ request' = [view |-> "event_delete", user |-> uid, method |-> method,
                   row |-> row]
    /\ UNCHANGED <<users, academics, semesters, teacher_subjects, marks,
                   announcements, inflight, orm_update_fields>>
    /\ CASE ~require_role(uid, {"admin"}) ->
              /\ response' = [status |-> "redirect_login"]
              /\ UNCHANGED events
         [] ~BagIn(row, events) ->
              /\ response' = [status |-> "404"]
              /\ UNCHANGED events
         [] method # "POST" ->
              /\ response' = [status |-> "render"]
              /\ UNCHANGED events
         [] OTHER ->
              /\ response' = [status |-> "deleted"]
              /\ events' = events (-) SetToBag({row})

-----------------------------------------------------------------------------
(* Teaching assignments *)

Assignment(te, su, cl) == [teacher |-> te, subject |-> su, school_class |-> cl]

(* A gate asking for the subject and the class in separate rows *)
AssignmentExists_separately(te, su, cl) ==
    /\ \E r \in BagToSet(teacher_subjects) : r.teacher = te /\ r.subject = su
    /\ \E r \in BagToSet(teacher_subjects) : r.teacher = te /\ r.school_class = cl

(* TeacherSubject.objects.filter(teacher=, subject=, school_class=).exists() *)
AssignmentExists(te, su, cl) == BagIn(Assignment(te, su, cl), teacher_subjects)

(* TeacherSubject.objects.get_or_create(teacher=, subject=, school_class=) *)
get_or_create(ts, row) ==
    CASE CopiesIn(row, ts) = 0 -> [raised |-> FALSE, rows |-> ts (+) SetToBag({row})]
      [] CopiesIn(row, ts) = 1 -> [raised |-> FALSE, rows |-> ts]
      [] OTHER                 -> [raised |-> TRUE, rows |-> ts]

teacher_subjects_manage(uid, method, subject_id, class_id, teacher_id) ==
    LET req == [view |-> "teacher_subjects_manage", user |-> uid, method |-> method,
                subject |-> subject_id, school_class |-> class_id,
                teacher_id |-> teacher_id]
        teacher == IF RoleOf(uid) = "admin" THEN teacher_id ELSE uid
        got == get_or_create(teacher_subjects, Assignment(teacher, subject_id, class_id))
    IN  /\ request' = req
        /\ UNCHANGED <<users, academics, semesters, marks, announcements,
                       events, inflight, orm_update_fields>>
        /\ CASE ~require_role(uid, {"teacher", "admin"}) ->
                  /\ response' = [status |-> "redirect_login"]
                  /\ UNCHANGED teacher_subjects
             [] method # "POST" ->
                  /\ response' = [status |-> "render"]
                  /\ UNCHANGED teacher_subjects
             [] \/ subject_id \notin Ids(subjects)
                \/ class_id \notin Ids(classes)
                \/ (RoleOf(uid) = "admin" /\ ~TeacherExists(teacher_id)) ->
                  /\ response' = [status |-> "404"]
                  /\ UNCHANGED teacher_subjects
             [] OTHER ->
                  /\ response' = [status |-> IF got.raised THEN "500" ELSE "saved"]
                  /\ teacher_subjects' = got.rows

register_subjects(uid, method, subject_id, class_id) ==
    LET req == [view |-> "register_subjects", user |-> uid, method |-> method,
                subject |-> subject_id, school_class |-> class_id]
        got == get_or_create(teacher_subjects, Assignment(uid, subject_id, class_id))
    IN  /\ request' = req
        /\ UNCHANGED <<users, academics, semesters, marks, announcements,
                       events, inflight, orm_update_fields>>
        /\ CASE ~IsAuthenticated(uid) ->
                  /\ response' = [status |-> "redirect_login"]
                  /\ UNCHANGED teacher_subjects
             [] RoleOf(uid) # "teacher" ->
                  /\ response' = [status |-> "redirect_dashboard"]
                  /\ UNCHANGED teacher_subjects
             [] method # "POST" \/ subject_id = 0 \/ class_id = 0 ->
                  /\ response' = [status |-> "render"]
                  /\ UNCHANGED teacher_subjects
             [] subject_id \notin Ids(subjects) \/ class_id \notin Ids(classes) ->
                  \* the foreign keys of the new row name no row: IntegrityError
                  /\ response' = [status |-> "500"]
                  /\ UNCHANGED teacher_subjects
             [] OTHER ->
                  /\ response' = [status |-> IF got.raised THEN "500" ELSE "saved"]
                  /\ teacher_subjects' = got.rows

(* The teacher of the row a POST to register_subjects or to                 *)
(* teacher_subjects_manage hands to get_or_create; 0 when the request ends  *)
(* before, or names a subject or a class that does not exist                *)
(* (teacher_subjects_manage answers 404, register_subjects fails in the     *)
(* create).                                                                 *)
TeacherOfPost(view, uid, subject_id, class_id, teacher_id) ==
    CASE view = "register_subjects" /\ RoleOf(uid) = "teacher"
         /\ subject_id \in Ids(subjects) /\ class_id \in Ids(classes) -> uid
      [] view = "teacher_subjects_manage" /\ RoleOf(uid) = "teacher"
         /\ subject_id \in Ids(subjects) /\ class_id \in Ids(classes) -> uid
      [] view = "teacher_subjects_manage" /\ RoleOf(uid) = "admin"
         /\ subject_id \in Ids(subjects) /\ class_id \in Ids(classes)
         /\ TeacherExists(teacher_id) -> teacher_id
      [] OTHER -> 0

(* QuerySet.get_or_create is a get() and, on DoesNotExist, a create() in a  *)
(* savepoint; TeacherSubject declares no unique constraint, so the create   *)
(* of a worker w never raises IntegrityError, and requests of other workers *)
(* are served between the two steps.                                        *)
get_or_create_get(w, view, uid, subject_id, class_id, teacher_id) ==
    /\ \A f \in inflight : f.worker # w
    /\ TeacherOfPost(view, uid, subject_id, class_id, teacher_id) # 0
    /\ request' = [view |-> view, user |-> uid, method |-> "POST", worker |-> w,
                   subject |-> subject_id, school_class |-> class_id,
                   teacher_id |-> teacher_id]
    /\ UNCHANGED <<store, orm_update_fields>>
    /\ \E row \in {Assignment(TeacherOfPost(view, uid, subject_id, class_id, teacher_id),
                               subject_id, class_id)} :
         CASE CopiesIn(row, teacher_subjects) = 0 ->
                /\ response' = [status |-> "scanned"]
                /\ inflight' = inflight \cup {[worker |-> w, row |-> row]}
           [] CopiesIn(row, teacher_subjects) = 1 ->
                /\ response' = [status |-> "saved"]
                /\ UNCHANGED inflight
           [] OTHER ->
                \* MultipleObjectsReturned
                /\ response' = [status |-> "500"]
                /\ UNCHANGED inflight

get_or_create_create(w) ==
    \E f \in inflight :
        /\ f.worker = w
        /\ inflight' = inflight \ {f}
        /\ request' = [view |-> "get_or_create", worker |-> w, row |-> f.row]
        /\ response' = [status |-> "saved"]
        /\ teacher_subjects' = teacher_subjects (+) SetToBag({f.row})
        /\ UNCHANGED <<users, academics, semesters, marks, announcements, events,
                       orm_update_fields>>

(* The row stands for the primary key the URL names *)
delete_teacher_subject(uid, method, row) ==
    /\ request' = [view |-> "delete_teacher_subject", user |-> uid, method |-> method,
                   subject |-> row.subject, school_class |-> row.school_class]
    /\ UNCHANGED <<users, academics, semesters, marks, announcements,
                   events, inflight, orm_update_fields>>
    /\ CASE ~IsAuthenticated(uid) ->
              /\ response' = [status |-> "redirect_login"]
              /\ UNCHANGED teacher_subjects
         [] RoleOf(uid) # "teacher" ->
              /\ response' = [status |-> "redirect_dashboard"]
              /\ UNCHANGED teacher_subjects
         [] ~BagIn(row, teacher_subjects) \/ row.teacher # uid ->
              /\ response' = [status |-> "404"]
              /\ UNCHANGED teacher_subjects
         [] method # "POST" ->
              \* the view returns None: no HttpResponse
              /\ response' = [status |-> "500"]
              /\ UNCHANGED teacher_subjects
         [] OTHER ->
              /\ response' = [status |-> "deleted"]
              /\ teacher_subjects' = teacher_subjects (-) SetToBag({row})

-----------------------------------------------------------------------------
(* Marks: upload by teacher or admin *)

(* A read with a default of "0" for a student left blank *)
SubmittedScore_default0(post, sid) ==
    IF sid \in DOMAIN post /\ post[sid] # Str0 THEN PyStr(post[sid]) ELSE PyStr(<<"0">>)

(* request.POST.get(f"marks_{student.id}"): post maps the student ids the   *)
(* form submitted to the text submitted                                     *)
SubmittedScore(post, sid) ==
    IF sid \in DOMAIN post THEN PyStr(post[sid]) ELSE PyNone

(* The students of the school, whatever their class *)
StudentsOf_school(cl) == {u.id : u \in {x \in users : x.role = "student"}}

(* The students of the class, User.objects.filter(role="student",           *)
(* school_class=selected_class); the queryset states no order.              *)
StudentsOf(cl) == {u.id : u \in {x \in users : x.role = "student" /\ x.school_class = cl}}

Orders(S) == {o \in [1..Cardinality(S) -> S] : \A i, j \in DOMAIN o : o[i] = o[j] => i = j}

(* One turn of the loop of upload_marks, for the student sid *)
SaveScore(m, key, score_value, uf) ==
    IF ScoreGiven(score_value) THEN update_or_create(m, key, score_value, uf)
    ELSE [raised |-> FALSE, marks |-> m]

SaveOne(m, sid, post, su, te, cl, se, uf) ==
    SaveScore(m, MarkKey(sid, su, te, cl, se), SubmittedScore(post, sid), uf)

(* The loop of upload_marks over the students in the order `order`, from    *)
(* position i on: an exception ends the request and keeps the rows saved    *)
(* before it (each update_or_create commits on its own).                    *)
RECURSIVE SaveMarks(_, _, _, _, _, _, _, _, _)
SaveMarks(acc, order, i, post, su, te, cl, se, uf) ==
    IF i > Len(order) \/ acc.raised THEN acc
    ELSE SaveMarks(SaveOne(acc.marks, order[i], post, su, te, cl, se, uf),
                   order, i + 1, post, su, te, cl, se, uf)

(* The teacher of a request that disregards teacher_id *)
ActingTeacher_self(uid, teacher_id) == uid

(* request.user, or the teacher an admin selected by teacher_id *)
ActingTeacher(uid, teacher_id) ==
    IF RoleOf(uid) = "admin" /\ teacher_id # 0 THEN teacher_id ELSE uid

upload_marks(uid, method, subject_id, class_id, semester_id, teacher_id, save_marks, post, order) ==
    /\ request' = [view |-> "upload_marks", user |-> uid, method |-> method,
                   subject |-> subject_id, school_class |-> class_id,
                   semester |-> semester_id, teacher_id |-> teacher_id,
                   save_marks |-> save_marks, post |-> post]
    /\ UNCHANGED <<users, academics, semesters, teacher_subjects,
                   announcements, events, inflight, orm_update_fields>>
    /\ \E teacher \in {ActingTeacher(uid, teacher_id)} :
         CASE ~require_role(uid, {"teacher", "admin"}) ->
                /\ response' = [status |-> "redirect_login"]
                /\ UNCHANGED marks
           [] method # "POST" \/ subject_id = 0 \/ class_id = 0 \/ semester_id = 0 ->
                /\ response' = [status |-> "render"]
                /\ UNCHANGED marks
           [] \/ subject_id \notin Ids(subjects)
              \/ class_id \notin Ids(classes)
              \/ ~SemesterExists(semester_id)
              \/ (teacher # uid /\ ~TeacherExists(teacher)) ->
                /\ response' = [status |-> "404"]
                /\ UNCHANGED marks
           [] ~AssignmentExists(teacher, subject_id, class_id) ->
                /\ response' = [status |-> "rejected"]
                /\ UNCHANGED marks
           [] ~save_marks ->
                /\ response' = [status |-> "render"]
                /\ UNCHANGED marks
           [] OTHER ->
                \E saved \in {SaveMarks([raised |-> FALSE, marks |-> marks], order, 1,
                                        post, subject_id, teacher, class_id,
                                        semester_id, orm_update_fields)} :
                    /\ order \in Orders(StudentsOf(class_id))
                    /\ response' = [status |-> IF saved.raised THEN "500" ELSE "saved"]
                    /\ marks' = saved.marks

(* upload_marks of worker w for a class of one student, up to and           *)
(* including the lookup of update_or_create (select_for_update().get()).    *)
(* A row found is locked and updated in the same step; with no row the      *)
(* request goes on to upload_marks_create, and requests of other workers    *)
(* are served in between: a lookup that finds nothing locks nothing.        *)
upload_marks_get(w, uid, subject_id, class_id, semester_id, teacher_id, text) ==
    /\ \A f \in inflight : f.worker # w
    /\ StudentsOf(class_id) # {}
    /\ \E sid \in StudentsOf(class_id), teacher \in {ActingTeacher(uid, teacher_id)} :
         /\ StudentsOf(class_id) = {sid}
         /\ request' = [view |-> "upload_marks", user |-> uid, method |-> "POST",
                        worker |-> w, subject |-> subject_id, school_class |-> class_id,
                        semester |-> semester_id, teacher_id |-> teacher_id,
                        save_marks |-> TRUE, post |-> (sid :> text)]
         /\ UNCHANGED <<users, academics, semesters, teacher_subjects,
                        announcements, events, orm_update_fields>>
         /\ \E key \in {MarkKey(sid, subject_id, teacher, class_id, semester_id)} :
              CASE ~require_role(uid, {"teacher", "admin"}) ->
                     /\ response' = [status |-> "redirect_login"]
                     /\ UNCHANGED <<marks, inflight>>
                [] \/ subject_id \notin Ids(subjects)
                   \/ class_id \notin Ids(classes)
                   \/ ~SemesterExists(semester_id)
                   \/ (teacher # uid /\ ~TeacherExists(teacher)) ->
                     /\ response' = [status |-> "404"]
                     /\ UNCHANGED <<marks, inflight>>
                [] ~AssignmentExists(teacher, subject_id, class_id) ->
                     /\ response' = [status |-> "rejected"]
                     /\ UNCHANGED <<marks, inflight>>
                [] ScoreGiven(PyStr(text)) /\ Matching(marks, key) = {} ->
                     /\ response' = [status |-> "scanned"]
                     /\ inflight' = inflight \cup {[worker |-> w, user |-> uid,
                                                     key |-> key,
                                                     score_value |-> PyStr(text),
                                                     seen |-> marks]}
                     /\ UNCHANGED marks
                [] OTHER ->
                     \E saved \in {SaveScore(marks, key, PyStr(text), orm_update_fields)} :
                         /\ response' = [status |-> IF saved.raised THEN "500" ELSE "saved"]
                         /\ marks' = saved.marks
                         /\ UNCHANGED inflight

(* The create() of update_or_create for the lookup of worker w that found   *)
(* no row.  Mark declares no unique constraint, so an engine that lets      *)
(* writers run side by side inserts the row whatever was inserted since     *)
(* the lookup; an engine with one writer at a time (SQLite) refuses the     *)
(* write of a transaction whose read is out of date ("database is          *)
(* locked").  The settings that name the engine are not in the source.      *)
upload_marks_create(w) ==
    \E f \in inflight :
        /\ f.worker = w
        /\ inflight' = inflight \ {f}
        /\ request' = [view |-> "upload_marks", user |-> f.user, method |-> "POST",
                       worker |-> w, subject |-> f.key.subject,
                       school_class |-> f.key.school_class,
                       semester |-> f.key.semester, score_value |-> f.score_value]
        /\ UNCHANGED <<users, academics, semesters, teacher_subjects,
                       announcements, events, orm_update_fields>>
        /\ \E saved \in {MarkSave(f.score_value)}, locked \in BOOLEAN :
             /\ locked => marks # f.seen
             /\ IF saved.raised \/ locked
                THEN /\ response' = [status |-> "500"]
                     /\ UNCHANGED marks
                ELSE /\ response' = [status |-> "saved"]
                     /\ marks' = marks (+) SetToBag({MarkRow(f.key, saved.score,
                                                              saved.grade)})

(* Mark.save() on the stored row `row` after `score` was assigned to its    *)
(* score attribute, as the change form of MarkAdmin in the admin site does  *)
(* with the value typed in (None for a field left empty).  An exception     *)
(* leaves the row as it was.                                                *)
mark_save(row, score) ==
    /\ BagIn(row, marks)
    /\ request' = [view |-> "mark_save", row |-> row, score |-> score]
    /\ UNCHANGED <<users, academics, semesters, teacher_subjects,
                   announcements, events, inflight, orm_update_fields>>
    /\ \E saved \in {MarkSave(score)} :
         IF saved.raised
         THEN /\ response' = [status |-> "500"]
              /\ UNCHANGED marks
         ELSE /\ response' = [status |-> "saved"]
              /\ marks' = (marks (-) SetToBag({row}))
                           (+) SetToBag({MarkRow(KeyOf(row), saved.score, saved.grade)})

-----------------------------------------------------------------------------
(* Results and reports *)

(* Mark.objects.all() in the place of the filter *)
MarksOf_all(m, sid) == m

(* Mark.objects.filter(student=student) *)
MarksOf(m, sid) == [r \in {x \in BagToSet(m) : x.student = sid} |-> CopiesIn(r, m)]

(* Sum("score") over the rows `rows` of the table m, in hundredths; the    *)
(* aggregates of SQL pass over NULL                                         *)
RECURSIVE SumScores(_, _)
SumScores(m, rows) ==
    IF rows = {} THEN 0
    ELSE LET r == CHOOSE x \in rows : TRUE
         IN  (IF r.score = NullScore THEN 0 ELSE CopiesIn(r, m) * r.score)
             + SumScores(m, rows \ {r})

(* The aggregates with Count("subject") counting rows *)
Aggregates_rows(total, n, subject_ids) ==
    [total_marks    |-> total,
     average_marks  |-> IF n = 0 THEN 0 ELSE RoundHalfEven(total, n),
     subjects_count |-> n]

(* aggregate(Sum("score")), round(aggregate(Avg("score")), 2) and            *)
(* aggregate(Count("subject", distinct=True)) of n rows whose scores sum to *)
(* `total`: an aggregate of no row is None and `or 0` makes it 0; round()   *)
(* of a Decimal rounds half to even.  In hundredths.                        *)
Aggregates(total, n, subject_ids) ==
    [total_marks    |-> total,
     average_marks  |-> IF n = 0 THEN 0 ELSE RoundHalfEven(total, n),
     subjects_count |-> Cardinality(subject_ids)]

(* The rows of the table m that hold a score *)
Scored(m) == [r \in {x \in BagToSet(m) : x.score # NullScore} |-> CopiesIn(r, m)]

AggregatesOf(m) ==
    Aggregates(SumScores(m, BagToSet(m)), BagCardinality(Scored(m)),
               {r.subject : r \in BagToSet(m)})

(* The loop of student_report: grade and gpa of every mark from             *)
(* get_grade_and_gpa(m.score)                                               *)
Graded(m) ==
    {[student |-> r.student, subject |-> r.subject, teacher |-> r.teacher,
      semester |-> r.semester, score |-> r.score, copies |-> CopiesIn(r, m),
      result |-> get_grade_and_gpa(ScoreOf(r))] : r \in BagToSet(m)}

(* student_results: the marks of the user who asks, a student *)
student_results(uid) ==
    /\ request' = [view |-> "student_results", user |-> uid]
    /\ UNCHANGED <<store, inflight, orm_update_fields>>
    /\ CASE ~IsAuthenticated(uid) ->
              response' = [status |-> "redirect_login"]
         [] RoleOf(uid) # "student" ->
              response' = [status |-> "redirect_dashboard"]
         [] OTHER ->
              response' = [status |-> "render", marks |-> MarksOf(marks, uid)]

student_report(uid, student_id) ==
    /\ request' = [view |-> "student_report", user |-> uid, student_id |-> student_id]
    /\ UNCHANGED <<store, inflight, orm_update_fields>>
    /\ \E found \in {MarksOf(marks, student_id)} :
         CASE ~require_role(uid, {"admin", "teacher", "student"}) ->
                response' = [status |-> "redirect_login"]
           [] RoleOf(student_id) # "student" ->
                response' = [status |-> "404"]
           [] \E g \in Graded(found) : g.result.raised ->
                response' = [status |-> "500"]
           [] OTHER ->
                response' = [status |-> "render", marks |-> Graded(found),
                             aggregates |-> AggregatesOf(found)]

(* student_results_download, which student_report_pdf calls: the view asks  *)
(* for a login and for no role                                              *)
student_results_download(uid, student_id) ==
    /\ request' = [view |-> "student_results_download", user |-> uid,
                   student_id |-> student_id]
    /\ UNCHANGED <<store, inflight, orm_update_fields>>
    /\ \E found \in {MarksOf(marks, student_id)} :
         CASE ~IsAuthenticated(uid) ->
                response' = [status |-> "redirect_login"]
           [] RoleOf(student_id) # "student" ->
                response' = [status |-> "404"]
           [] OTHER ->
                response' = [status |-> "pdf", marks |-> found,
                             aggregates |-> AggregatesOf(found)]

(* Mark.objects.filter(...): the rows whose fields hold the values of      *)
(* `given`, a filter of 0 standing for a GET parameter that was not sent    *)
MarksWhere(m, given) ==
    [r \in {x \in BagToSet(m) :
                \A fld \in DOMAIN given : given[fld] = 0 \/ x[fld] = given[fld]}
       |-> CopiesIn(r, m)]

class_marks_pdf(uid, class_id, subject_id) ==
    /\ request' = [view |-> "class_marks_pdf", user |-> uid, subject |-> subject_id,
                   school_class |-> class_id, semester |-> 0]
    /\ UNCHANGED <<store, inflight, orm_update_fields>>
    /\ CASE ~IsAuthenticated(uid) ->
              response' = [status |-> "redirect_login"]
         [] RoleOf(uid) # "teacher" ->
              response' = [status |-> "redirect_dashboard"]
         [] class_id \notin Ids(classes) \/ subject_id \notin Ids(subjects) ->
              response' = [status |-> "404"]
         [] ~AssignmentExists(uid, subject_id, class_id) ->
              response' = [status |-> "redirect_dashboard"]
         [] OTHER ->
              response' = [status |-> "pdf",
                           marks |-> MarksWhere(marks, [school_class |-> class_id,
                                                        subject |-> subject_id,
                                                        teacher |-> uid])]

teacher_results_pdf(uid, subject_id, class_id, semester_id) ==
    /\ request' = [view |-> "teacher_results_pdf", user |-> uid, subject |-> subject_id,
                   school_class |-> class_id, semester |-> semester_id]
    /\ UNCHANGED <<store, inflight, orm_update_fields>>
    /\ CASE RoleOf(uid) # "teacher" ->
              response' = [status |-> "redirect_login"]
         [] ~AssignmentExists(uid, subject_id, class_id) ->
              response' = [status |-> "403"]
         [] ~SemesterExists(semester_id) ->
              \* the subject and the class of an assignment exist
              response' = [status |-> "404"]
         [] OTHER ->
              response' = [status |-> "pdf",
                           marks |-> MarksWhere(marks, [subject |-> subject_id,
                                                        school_class |-> class_id,
                                                        semester |-> semester_id,
                                                        teacher |-> uid])]

(* The second definition of teachers_results in views.py, the one the name  *)
(* is bound to when urls.py reads it; the first, which filtered on the      *)
(* classes and subjects of the assignments, is shadowed.                    *)
teachers_results(uid, subject_id, class_id, semester_id) ==
    /\ request' = [view |-> "teachers_results", user |-> uid, subject |-> subject_id,
                   school_class |-> class_id, semester |-> semester_id]
    /\ UNCHANGED <<store, inflight, orm_update_fields>>
    /\ CASE ~IsAuthenticated(uid) ->
              response' = [status |-> "redirect_login"]
         [] RoleOf(uid) # "teacher" ->
              response' = [status |-> "redirect_dashboard"]
         [] OTHER ->
              response' = [status |-> "render",
                           marks |-> MarksWhere(marks, [teacher |-> uid,
                                                        subject |-> subject_id,
                                                        school_class |-> class_id,
                                                        semester |-> semester_id])]

-----------------------------------------------------------------------------
(* Deleting rows: Model.delete() collects what refers to the deleted rows.  *)

Without(rows, pk) == {r \in rows : r.id # pk}

(* on_delete=SET_NULL of User.department, course, school_class, semester *)
SetNull(u, deps, cos, cls, sems) ==
    [u EXCEPT !.department   = IF @ \in Ids(deps) THEN @ ELSE 0,
              !.course       = IF @ \in Ids(cos) THEN @ ELSE 0,
              !.school_class = IF @ \in Ids(cls) THEN @ ELSE 0,
              !.semester     = IF @ \in Ids(sems) THEN @ ELSE 0]

(* A delete that leaves the rows referring to the deleted rows *)
Referring_kept(b, refs) == b

(* The rows of the bag b whose every foreign key `fld` names a row of       *)
(* refs[fld] (on_delete=CASCADE removes the others)                         *)
Referring(b, refs) ==
    [r \in {x \in BagToSet(b) : \A fld \in DOMAIN refs : x[fld] \in Ids(refs[fld])}
        |-> CopiesIn(r, b)]

(* The store after a delete() that leaves the tables us, deps, cos, subs,   *)
(* cls and sems before the rules of on_delete are applied: CASCADE from     *)
(* Department to Course, from Course to SchoolClass and Subject, and from   *)
(* User, Subject, SchoolClass and Semester to TeacherSubject and Mark;      *)
(* SET_NULL on the four foreign keys of User.                               *)
Delete(us, deps, cos, subs, cls, sems) ==
    /\ departments' = deps
    /\ courses' = {c \in cos : c.department \in Ids(deps)}
    /\ subjects' = {s \in subs : s.course \in Ids(courses')}
    /\ classes' = {k \in cls : k.course \in Ids(courses')}
    /\ semesters' = sems
    /\ users' = {SetNull(u, deps, courses', classes', sems) : u \in us}
    /\ teacher_subjects' =
          Referring(teacher_subjects,
                    [teacher |-> us, subject |-> subjects', school_class |-> classes'])
    /\ marks' =
          Referring(marks,
                    [student |-> us, teacher |-> us, subject |-> subjects',
                     school_class |-> classes', semester |-> sems])

(* The body the delete views share: the role, get_object_or_404, and        *)
(* delete() on a POST or the confirmation page.  `found` tells whether the  *)
(* row of the primary key pk exists, and the tables are those without it.   *)
DeleteView(view, uid, method, pk, found, us, deps, cos, subs, cls, sems) ==
    /\ request' = [view |-> view, user |-> uid, method |-> method, pk |-> pk]
    /\ UNCHANGED <<announcements, events, inflight, orm_update_fields>>
    /\ CASE ~require_role(uid, {"admin"}) ->
              /\ response' = [status |-> "redirect_login"]
              /\ UNCHANGED <<users, academics, semesters, teacher_subjects, marks>>
         [] ~found ->
              /\ response' = [status |-> "404"]
              /\ UNCHANGED <<users, academics, semesters, teacher_subjects, marks>>
         [] method # "POST" ->
              /\ response' = [status |-> "render"]
              /\ UNCHANGED <<users, academics, semesters, teacher_subjects, marks>>
         [] OTHER ->
              /\ response' = [status |-> "deleted"]
              /\ Delete(us, deps, cos, subs, cls, sems)

(* get_object_or_404(User, pk=pk, role=role) finds a row *)
UserExists(pk, role) == \E u \in users : u.id = pk /\ u.role = role

teacher_delete(uid, method, pk) ==
    DeleteView("teacher_delete", uid, method, pk, UserExists(pk, "teacher"),
               Without(users, pk), departments, courses, subjects, classes, semesters)

admin_delete(uid, method, pk) ==
    DeleteView("admin_delete", uid, method, pk, UserExists(pk, "admin"),
               Without(users, pk), departments, courses, subjects, classes, semesters)

department_delete(uid, method, pk) ==
    DeleteView("department_delete", uid, method, pk, pk \in Ids(departments),
               users, Without(departments, pk), courses, subjects, classes, semesters)

course_delete(uid, method, course_id) ==
    DeleteView("course_delete", uid, method, course_id, course_id \in Ids(courses),
               users, departments, Without(courses, course_id), subjects, classes, semesters)

class_delete(uid, method, pk) ==
    DeleteView("class_delete", uid, method, pk, pk \in Ids(classes),
               users, departments, courses, subjects, Without(classes, pk), semesters)

subject_delete(uid, method, pk) ==
    DeleteView("subject_delete", uid, method, pk, pk \in Ids(subjects),
               users, departments, courses, Without(subjects, pk), classes, semesters)

semester_delete(uid, method, pk) ==
    DeleteView("semester_delete", uid, method, pk, SemesterExists(pk),
               users, departments, courses, subjects, classes, Without(semesters, pk))

-----------------------------------------------------------------------------
(* Create and edit forms of the academic hierarchy *)

(* The course of the checks the create and edit views share, to the status  *)
(* of the response: the role; get_object_or_404 of the row edited; the      *)
(* method; the `if not name or not <parent>_id` test, answered with         *)
(* messages.error and a redirect to the form; get_object_or_404 of the row  *)
(* referred to; and the write, which a unique column can refuse             *)
(* (IntegrityError, not caught).  An id of 0 stands for none submitted.     *)
FormOutcome(uid, method, found, required, referred, unique) ==
    CASE ~require_role(uid, {"admin"}) -> "redirect_login"
      [] ~found                        -> "404"
      [] method # "POST"               -> "render"
      [] ~required                     -> "rejected"
      [] ~referred                     -> "404"
      [] ~unique                       -> "500"
      [] OTHER                         -> "saved"

(* The table after the form was handled with the status `status` *)
Saved(status, rows, row) ==
    IF status = "saved" THEN Without(rows, row.id) \cup {row} ELSE rows

FormRequest(view, uid, method, pk, name, parent) ==
    [view |-> view, user |-> uid, method |-> method, pk |-> pk, name |-> name,
     parent |-> parent]

department_create(uid, method, name) ==
    /\ request' = FormRequest("department_create", uid, method, 0, name, 0)
    /\ UNCHANGED <<users, courses, subjects, classes, semesters, teacher_subjects, marks,
                   announcements, events, inflight, orm_update_fields>>
    /\ \E status \in {FormOutcome(uid, method, TRUE, Strip(name) # Str0, TRUE,
                                   \A d \in departments : d.name # Strip(name))} :
         /\ response' = [status |-> status]
         /\ departments' = Saved(status, departments,
                                 [id |-> NewPk(departments), name |-> Strip(name)])

department_edit(uid, method, pk, name) ==
    /\ request' = FormRequest("department_edit", uid, method, pk, name, 0)
    /\ UNCHANGED <<users, courses, subjects, classes, semesters, teacher_subjects, marks,
                   announcements, events, inflight, orm_update_fields>>
    /\ \E status \in {FormOutcome(uid, method, pk \in Ids(departments),
                                   Strip(name) # Str0, TRUE,
                                   \A d \in Without(departments, pk) :
                                       d.name # Strip(name))} :
         /\ response' = [status |-> status]
         /\ departments' = Saved(status, departments, [id |-> pk, name |-> Strip(name)])

course_create(uid, method, name, department_id) ==
    /\ request' = FormRequest("course_create", uid, method, 0, name, department_id)
    /\ UNCHANGED <<users, departments, subjects, classes, semesters, teacher_subjects,
                   marks, announcements, events, inflight, orm_update_fields>>
    /\ \E status \in {FormOutcome(uid, method, TRUE,
                                   Strip(name) # Str0 /\ department_id # 0,
                                   department_id \in Ids(departments), TRUE)} :
         /\ response' = [status |-> status]
         /\ courses' = Saved(status, courses,
                             [id |-> NewPk(courses), name |-> Strip(name),
                              department |-> department_id])

course_edit(uid, method, course_id, name, department_id) ==
    /\ request' = FormRequest("course_edit", uid, method, course_id, name, department_id)
    /\ UNCHANGED <<users, departments, subjects, classes, semesters, teacher_subjects,
                   marks, announcements, events, inflight, orm_update_fields>>
    /\ \E status \in {FormOutcome(uid, method, course_id \in Ids(courses),
                                   Strip(name) # Str0 /\ department_id # 0,
                                   department_id \in Ids(departments), TRUE)} :
         /\ response' = [status |-> status]
         /\ courses' = Saved(status, courses,
                             [id |-> course_id, name |-> Strip(name),
                              department |-> department_id])

class_create(uid, method, name, course_id) ==
    /\ request' = FormRequest("class_create", uid, method, 0, name, course_id)
    /\ UNCHANGED <<users, departments, courses, subjects, semesters, teacher_subjects,
                   marks, announcements, events, inflight, orm_update_fields>>
    /\ \E status \in {FormOutcome(uid, method, TRUE, Strip(name) # Str0 /\ course_id # 0,
                                   course_id \in Ids(courses), TRUE)} :
         /\ response' = [status |-> status]
         /\ classes' = Saved(status, classes,
                             [id |-> NewPk(classes), name |-> Strip(name),
                              course |-> course_id])

class_edit(uid, method, pk, name, course_id) ==
    /\ request' = FormRequest("class_edit", uid, method, pk, name, course_id)
    /\ UNCHANGED <<users, departments, courses, subjects, semesters, teacher_subjects,
                   marks, announcements, events, inflight, orm_update_fields>>
    /\ \E status \in {FormOutcome(uid, method, pk \in Ids(classes),
                                   Strip(name) # Str0 /\ course_id # 0,
                                   course_id \in Ids(courses), TRUE)} :
         /\ response' = [status |-> status]
         /\ classes' = Saved(status, classes,
                             [id |-> pk, name |-> Strip(name), course |-> course_id])

subject_create(uid, method, name, course_id) ==
    /\ request' = FormRequest("subject_create", uid, method, 0, name, course_id)
    /\ UNCHANGED <<users, departments, courses, classes, semesters, teacher_subjects,
                   marks, announcements, events, inflight, orm_update_fields>>
    /\ \E status \in {FormOutcome(uid, method, TRUE, Strip(name) # Str0 /\ course_id # 0,
                                   course_id \in Ids(courses), TRUE)} :
         /\ response' = [status |-> status]
         /\ subjects' = Saved(status, subjects,
                              [id |-> NewPk(subjects), name |-> Strip(name),
                               course |-> course_id])

subject_edit(uid, method, pk, name, course_id) ==
    /\ request' = FormRequest("subject_edit", uid, method, pk, name, course_id)
    /\ UNCHANGED <<users, departments, courses, classes, semesters, teacher_subjects,
                   marks, announcements, events, inflight, orm_update_fields>>
    /\ \E status \in {FormOutcome(uid, method, pk \in Ids(subjects),
                                   Strip(name) # Str0 /\ course_id # 0,
                                   course_id \in Ids(courses), TRUE)} :
         /\ response' = [status |-> status]
         /\ subjects' = Saved(status, subjects,
                              [id |-> pk, name |-> Strip(name), course |-> course_id])

-----------------------------------------------------------------------------
(* Create and edit forms of the users, the profile, and the event form *)

(* create_user writes username = email = lower(first + last) +             *)
(* "@progressive.sch" in a unique column.  The usernames of the rows are    *)
(* not part of the state, so whether the name is free is either.            *)
teacher_create(uid, method, first_name, department_id) ==
    /\ request' = FormRequest("teacher_create", uid, method, 0, first_name, department_id)
    /\ UNCHANGED <<academics, semesters, teacher_subjects, marks, announcements, events,
                   inflight, orm_update_fields>>
    /\ \E unique \in BOOLEAN :
       \E status \in {FormOutcome(uid, method, TRUE, TRUE,
                                   department_id \in Ids(departments), unique)} :
         /\ response' = [status |-> status]
         /\ users' = Saved(status, users,
                           UserRow(NewId(users), "teacher", NoAdmission, Strip(first_name),
                                   department_id, 0, 0, 0))

(* A form that binds the role as well as the names *)
SetNames_role(u, first_name) ==
    [u EXCEPT !.first_name = Strip(first_name), !.role = "admin"]

(* first_name and last_name of the POST, stripped, assigned to the row *)
SetNames(u, first_name) == [u EXCEPT !.first_name = Strip(first_name)]

teacher_update(uid, method, pk, first_name, department_id) ==
    /\ request' = FormRequest("teacher_update", uid, method, pk, first_name, department_id)
    /\ UNCHANGED <<academics, semesters, teacher_subjects, marks, announcements, events,
                   inflight, orm_update_fields>>
    /\ \E status \in {FormOutcome(uid, method, UserExists(pk, "teacher"), TRUE,
                                   department_id \in Ids(departments), TRUE)} :
         /\ response' = [status |-> status]
         /\ users' = Saved(status, users,
                           [SetNames(UserById(pk), first_name) EXCEPT
                                                !.department = department_id])

student_update(uid, method, pk, first_name, department_id, course_id, class_id, semester_id) ==
    /\ request' = [view |-> "student_update", user |-> uid, method |-> method, pk |-> pk,
                   name |-> first_name, department |-> department_id, course |-> course_id,
                   school_class |-> class_id, semester |-> semester_id]
    /\ UNCHANGED <<academics, semesters, teacher_subjects, marks, announcements, events,
                   inflight, orm_update_fields>>
    /\ \E status \in {FormOutcome(uid, method, UserExists(pk, "student"), TRUE,
                                   /\ department_id \in Ids(departments)
                                   /\ course_id \in Ids(courses)
                                   /\ class_id \in Ids(classes)
                                   /\ semester_id \in Ids(semesters), TRUE)} :
         /\ response' = [status |-> status]
         /\ users' = Saved(status, users,
                           [SetNames(UserById(pk), first_name) EXCEPT
                                                !.department = department_id,
                                                !.course = course_id,
                                                !.school_class = class_id,
                                                !.semester = semester_id])

admin_update(uid, method, pk, first_name) ==
    /\ request' = FormRequest("admin_update", uid, method, pk, first_name, 0)
    /\ UNCHANGED <<academics, semesters, teacher_subjects, marks, announcements, events,
                   inflight, orm_update_fields>>
    /\ \E status \in {FormOutcome(uid, method, UserExists(pk, "admin"), TRUE, TRUE, TRUE)} :
         /\ response' = [status |-> status]
         /\ users' = Saved(status, users, SetNames(UserById(pk), first_name))

(* login_required is the only guard: every role saves its own names *)
profile_settings(uid, method, first_name) ==
    /\ request' = FormRequest("profile_settings", uid, method, uid, first_name, 0)
    /\ UNCHANGED <<academics, semesters, teacher_subjects, marks, announcements, events,
                   inflight, orm_update_fields>>
    /\ \E status \in {IF ~IsAuthenticated(uid) THEN "redirect_login"
                       ELSE IF method # "POST" THEN "render" ELSE "saved"} :
         /\ response' = [status |-> status]
         /\ users' = Saved(status, users, SetNames(UserById(uid), first_name))

(* The row stands for the primary key the URL names.  The date text is      *)
(* assigned to the DateField as it is and save() raises ValidationError on  *)
(* a text that is no date.                                                  *)
event_edit(uid, method, row, date, visibility) ==
    /\ request' = [view |-> "event_edit", user |-> uid, method |-> method, row |-> row,
                   date |-> date, visibility |-> visibility]
    /\ UNCHANGED <<users, academics, semesters, teacher_subjects, marks,
                   announcements, inflight, orm_update_fields>>
    /\ \E d \in {ParseDate(Strip(date))} :
       \E status \in {FormOutcome(uid, method, BagIn(row, events), TRUE, TRUE, d.ok)} :
         /\ response' = [status |-> status]
         /\ events' = IF status = "saved"
                      THEN (events (-) SetToBag({row}))
                           (+) SetToBag({EventRow(d.date, visibility)})
                      ELSE events

-----------------------------------------------------------------------------
(* A school the admin has set up through the views: an admin (1), two      *)
(* teachers (2, 6), two students of class 1 (3, 4) and one of class 2 (5),  *)
(* two subjects and one semester.                                           *)

AdmissionNumber(n) == <<Prefix \o Zfill(NatToStr(n), ZfillWidth)>>

SchoolUsers ==
    {UserRow(1, "admin", NoAdmission, <<"a">>, 0, 0, 0, 0),
     UserRow(2, "teacher", NoAdmission, <<"t">>, 1, 0, 0, 0),
     UserRow(3, "student", AdmissionNumber(1), <<"s">>, 1, 1, 1, 1),
     UserRow(4, "student", AdmissionNumber(2), <<"s">>, 1, 1, 1, 1),
     UserRow(5, "student", AdmissionNumber(3), <<"s">>, 1, 1, 2, 1),
     UserRow(6, "teacher", NoAdmission, <<"t">>, 1, 0, 0, 0)}

SchoolCourse ==
    [departments |-> {[id |-> 1, name |-> <<"S", "c">>]},
     courses     |-> {[id |-> 1, name |-> <<"P", "h">>, department |-> 1]},
     subjects    |-> {[id |-> i, name |-> <<"M">>, course |-> 1] : i \in {1, 2}},
     classes     |-> {[id |-> i, name |-> <<"1", "0">>, course |-> 1] : i \in {1, 2}}]

SchoolSemesters ==
    {[id |-> 1, name |-> <<"S", "1">>,
      start_date |-> <<2024, 1, 10>>, end_date |-> <<2024, 6, 30>>]}

InitSchool ==
    /\ users = SchoolUsers
    /\ departments = SchoolCourse.departments
    /\ courses = SchoolCourse.courses
    /\ subjects = SchoolCourse.subjects
    /\ classes = SchoolCourse.classes
    /\ semesters = SchoolSemesters
    /\ marks = EmptyBag
    /\ announcements = <<>>
    /\ events = EmptyBag
    /\ inflight = {}
    /\ orm_update_fields \in BOOLEAN
    /\ request = NoRequest
    /\ response = NoResponse

Methods == {"GET", "POST"}

(* The forms a set S of students can submit with the texts `texts` *)
Posts(S, texts) == UNION {[K -> texts] : K \in SUBSET S}

(* The letter the fixed thresholds give the number n / 10^e *)
LetterOf(n, e) ==
    CHOOSE g \in {"A", "B", "C", "D", "F"} :
        /\ (g = "A") <=> (n >= 90 * (10 ^ e))
        /\ (g = "B") <=> (80 * (10 ^ e) <= n /\ n < 90 * (10 ^ e))
        /\ (g = "C") <=> (70 * (10 ^ e) <= n /\ n < 80 * (10 ^ e))
        /\ (g = "D") <=> (60 * (10 ^ e) <= n /\ n < 70 * (10 ^ e))
        /\ (g = "F") <=> (n < 60 * (10 ^ e))

-----------------------------------------------------------------------------
(* Specification SpecUpload: upload_marks requests against the school with  *)
(* the teacher assigned to (subject 1, class 1).                            *)

UploadTexts ==
    {Str0, <<"8", "5">>, <<"8", "9", ".", "9", "9", "9">>, <<"9", "0">>,
     <<"a", "b", "c">>, <<"1", "5", "0">>, <<"-", "5">>}

OtherPost == (3 :> <<"8", "5">>) @@ (5 :> <<"9", "0">>)

(* Requests that end before the loop, or that the admin makes: the user,   *)
(* the method, the subject, class and semester selected, teacher_id and     *)
(* whether save_marks was submitted.  User 0 is not logged in; subject 3    *)
(* and semester 2 do not exist.                                             *)
OtherRequests ==
    {<<0, "POST", 1, 1, 1, 0, TRUE>>,
     <<3, "POST", 1, 1, 1, 0, TRUE>>,
     <<2, "GET", 1, 1, 1, 0, TRUE>>,
     <<2, "POST", 0, 1, 1, 0, TRUE>>,
     <<2, "POST", 3, 1, 1, 0, TRUE>>,
     <<2, "POST", 1, 1, 2, 0, TRUE>>,
     <<2, "POST", 2, 1, 1, 0, TRUE>>,
     <<2, "POST", 1, 2, 1, 0, TRUE>>,
     <<2, "POST", 1, 1, 1, 0, FALSE>>,
     <<2, "POST", 1, 1, 1, 0, TRUE>>,
     <<1, "POST", 1, 1, 1, 0, TRUE>>,
     <<1, "POST", 1, 1, 1, 3, TRUE>>,
     <<1, "POST", 1, 1, 1, 2, TRUE>>}

InitUpload ==
    /\ InitSchool
    /\ teacher_subjects = SetToBag({Assignment(2, 1, 1)})

NextUpload ==
    \/ \E post \in Posts({3, 4}, UploadTexts), order \in Orders(StudentsOf(1)) :
          upload_marks(2, "POST", 1, 1, 1, 0, TRUE, post, order)
    \/ \E r \in OtherRequests, order \in Orders(StudentsOf(1)) :
          upload_marks(r[1], r[2], r[3], r[4], r[5], r[6], r[7], OtherPost, order)

SpecUpload == InitUpload /\ [][NextUpload]_vars

(* The rows of Mark of one student, with their numbers of copies *)
RowsOf(m, sid) ==
    [r \in {x \in BagToSet(m) : x.student = sid} |-> CopiesIn(r, m)]

(* The submitted text is absent or empty *)
Blank(post, sid) == sid \notin DOMAIN post \/ post[sid] = Str0

(* The submitted text is a decimal literal that fits the column *)
ValidText(post, sid) ==
    /\ ~Blank(post, sid)
    /\ ParseFloat(post[sid]).ok
    /\ DecimalPrep(ParseFloat(post[sid])).ok

(* An upload_marks request that passed the gate with save_marks submitted *)
IsSave(req, resp) ==
    req.view = "upload_marks" /\ resp.status \in {"saved", "500"}

(* C2: in every state reachable by upload_marks requests, every stored Mark *)
(* row has the grade the thresholds derive from the row's stored score.     *)
C2_GradeDerived ==
    \A r \in BagToSet(marks) : r.grade = LetterOf(r.score, DecimalPlaces)

(* A row stored as 90.00 with the grade "B" *)
C2_Diverged ==
    \E r \in BagToSet(marks) : r.score = 9000 /\ r.grade = "B"

(* C4: after an upload_marks save, each five-tuple a score was submitted    *)
(* for has exactly one Mark row, holding the score of this (the later)      *)
(* upload and the grade derived from it.                                    *)
C4_Upsert ==
    [][(request'.view = "upload_marks" /\ response'.status = "saved") =>
          \A sid \in StudentsOf(request'.school_class) :
             ~Blank(request'.post, sid) =>
                 LET f    == ParseFloat(request'.post[sid])
                     rows == Matching(marks', MarkKey(sid, request'.subject,
                                                      ActingTeacher(request'.user,
                                                                    request'.teacher_id),
                                                      request'.school_class,
                                                      request'.semester))
                 IN  /\ CountRows(marks', rows) = 1
                     /\ \A r \in rows : /\ r.score = DecimalPrep(f).score
                                        /\ r.grade = LetterOf(f.n, f.e)]_vars

(* A second upload of "90" over a stored 85.00 / "B" left the grade "B" *)
C4_Stale ==
    /\ response.status = "saved"
    /\ 3 \in DOMAIN request.post
    /\ request.post[3] = <<"9", "0">>
    /\ \E r \in BagToSet(marks) : r.student = 3 /\ r.score = 9000 /\ r.grade = "B"

(* C4, its second half: an upload_marks save that repeats the request      *)
(* saved just before leaves the table Mark as it was.                       *)
C4_Idempotent ==
    [][(/\ request.view = "upload_marks"
        /\ response.status = "saved"
        /\ request' = request
        /\ response'.status = "saved") => marks' = marks]_vars

(* C9: in an upload_marks request, every student of the selected class     *)
(* whose submitted score is absent or empty keeps their Mark rows as they   *)
(* were: none created, none changed in score or grade, none removed.        *)
C9_BlankUntouched ==
    [][request'.view = "upload_marks" =>
          \A sid \in StudentsOf(request'.school_class) :
             Blank(request'.post, sid) => RowsOf(marks', sid) = RowsOf(marks, sid)]_vars

(* A save with student 3 left blank while 3 holds a row and 4 gets one *)
C9_Witness ==
    /\ response.status = "saved"
    /\ request.post = (3 :> Str0) @@ (4 :> <<"9", "0">>)
    /\ \E r \in BagToSet(marks) : r.student = 3 /\ r.score = 8500 /\ r.grade = "B"
    /\ \E r \in BagToSet(marks) : r.student = 4 /\ r.score = 9000

(* C10: an upload_marks save leaves every student of the class whose        *)
(* submitted score is a valid number with a Mark row holding that score,    *)
(* whatever the other students submitted and wherever they stand in the     *)
(* batch.                                                                   *)
C10_InvalidDoesNotBlock ==
    [][IsSave(request', response') =>
          \A sid \in StudentsOf(request'.school_class) :
             ValidText(request'.post, sid) =>
                 \E r \in BagToSet(marks') :
                    /\ r.student = sid
                    /\ r.score = DecimalPrep(ParseFloat(request'.post[sid])).score]_vars

(* The request failed on "abc" and student 4, who submitted 85, has no row *)
C10_Blocked ==
    /\ response.status = "500"
    /\ request.post = (3 :> <<"a", "b", "c">>) @@ (4 :> <<"8", "5">>)
    /\ ~\E r \in BagToSet(marks) : r.student = 4

(* C12: in every state reachable by upload_marks requests with arbitrary    *)
(* submitted texts, every stored Mark row has a score between MinScore and  *)
(* MaxScore (the column holds a number in every row of these states).       *)
C12_ScoreRange ==
    \A r \in BagToSet(marks) :
        /\ MinScore * (10 ^ DecimalPlaces) <= r.score
        /\ r.score <= MaxScore * (10 ^ DecimalPlaces)

(* Rows stored as 150.00 and as -5.00 *)
C12_OutOfRange ==
    /\ \E r \in BagToSet(marks) : r.score = 15000 /\ r.grade = "A"
    /\ \E r \in BagToSet(marks) : r.score = -500 /\ r.grade = "F"

-----------------------------------------------------------------------------
(* Specification SpecGate: teachers register and delete their teaching     *)
(* assignments, the admin assigns them, and teachers upload marks for every *)
(* pair of a subject and a class.                                           *)

GatePost == (3 :> <<"8", "5">>) @@ (4 :> <<"9", "0">>) @@ (5 :> <<"7", "0">>)

InitGate ==
    /\ InitSchool
    /\ teacher_subjects = EmptyBag

RegisterSubjects ==
    \/ \E method \in Methods, su \in Ids(subjects), cl \in Ids(classes) :
          register_subjects(2, method, su, cl)
    \/ register_subjects(6, "POST", 1, 1)

AdminAssigns ==
    \E su \in Ids(subjects), cl \in Ids(classes), teacher_id \in {1, 2, 3} :
        teacher_subjects_manage(1, "POST", su, cl, teacher_id)

DeleteTeacherSubject ==
    \E method \in Methods, su \in Ids(subjects), cl \in Ids(classes) :
        delete_teacher_subject(2, method, Assignment(2, su, cl))

UploadMarks ==
    \/ \E uid \in {2, 6}, su \in Ids(subjects), cl \in Ids(classes) :
          \E order \in Orders(StudentsOf(cl)) :
              upload_marks(uid, "POST", su, cl, 1, 0, TRUE, GatePost, order)
    \/ \E teacher_id \in {0, 2, 3, 6}, su \in Ids(subjects), cl \in Ids(classes) :
          \E order \in Orders(StudentsOf(cl)) :
              upload_marks(1, "POST", su, cl, 1, teacher_id, TRUE, GatePost, order)

NextGate ==
    \/ RegisterSubjects
    \/ AdminAssigns
    \/ DeleteTeacherSubject
    \/ UploadMarks

SpecGate == InitGate /\ [][NextGate]_vars

(* C3: an upload_marks request of a teacher for a subject X and a class Y   *)
(* for which TeacherSubject holds no row (that teacher, X, Y) changes no    *)
(* Mark row and, when it selects an existing subject, class and semester,   *)
(* is answered with the rejection; rows of the teacher for X or for Y with  *)
(* another class or subject, and rows of other teachers, do not matter.     *)
C3_Gate ==
    [][(/\ request'.view = "upload_marks"
        /\ RoleOf(request'.user) = "teacher"
        /\ ~BagIn(Assignment(request'.user, request'.subject, request'.school_class),
                  teacher_subjects))
       => /\ marks' = marks
          /\ (/\ request'.method = "POST"
              /\ request'.subject \in Ids(subjects)
              /\ request'.school_class \in Ids(classes)
              /\ SemesterExists(request'.semester))
             => response'.status = "rejected"]_vars

(* Teacher 2, assigned to (1, 2) and (2, 1) but not (1, 1), which teacher 6 *)
(* holds, was rejected for (1, 1) while Mark holds rows                     *)
C3_Witness ==
    /\ request.view = "upload_marks"
    /\ request.user = 2
    /\ request.subject = 1
    /\ request.school_class = 1
    /\ response.status = "rejected"
    /\ BagIn(Assignment(2, 1, 2), teacher_subjects)
    /\ BagIn(Assignment(2, 2, 1), teacher_subjects)
    /\ BagIn(Assignment(6, 1, 1), teacher_subjects)
    /\ ~BagIn(Assignment(2, 1, 1), teacher_subjects)
    /\ marks # EmptyBag

(* The upload_marks request of an admin that selects an existing subject,    *)
(* class and semester and, if any, a teacher that exists                    *)
AdminUpload(req) ==
    /\ req.view = "upload_marks"
    /\ RoleOf(req.user) = "admin"
    /\ req.method = "POST"
    /\ req.subject \in Ids(subjects)
    /\ req.school_class \in Ids(classes)
    /\ SemesterExists(req.semester)
    /\ req.teacher_id # 0 => RoleOf(req.teacher_id) = "teacher"

(* C11 as stated: an admin's upload_marks request is accepted whether or    *)
(* not a TeacherSubject row matches the subject and the class, for any      *)
(* teacher selected by teacher_id.                                          *)
C11_AdminBypass ==
    [][AdminUpload(request') => response'.status # "rejected"]_vars

(* C11, amended: an admin's upload_marks request is accepted exactly when   *)
(* TeacherSubject holds a row of the teacher selected by teacher_id (of the *)
(* admin, when none is selected) for the subject and the class; an accepted *)
(* request records the marks under the selected teacher, whoever of the     *)
(* teachers that is, and a rejected one changes no Mark row.                *)
C11_AdminGate ==
    [][AdminUpload(request') =>
          LET te == IF request'.teacher_id # 0 THEN request'.teacher_id
                    ELSE request'.user
          IN  IF BagIn(Assignment(te, request'.subject, request'.school_class),
                       teacher_subjects)
              THEN /\ response'.status = "saved"
                   /\ \A sid \in StudentsOf(request'.school_class) :
                         \E r \in BagToSet(marks') :
                            /\ r.student = sid
                            /\ r.teacher = request'.teacher_id
                            /\ r.subject = request'.subject
                            /\ r.school_class = request'.school_class
              ELSE /\ response'.status = "rejected"
                   /\ marks' = marks]_vars

(* The admin recorded marks for (1, 1) under teacher 6, who holds that      *)
(* assignment, while teacher 2 holds another                                *)
C11_Witness ==
    /\ request.view = "upload_marks"
    /\ request.user = 1
    /\ request.teacher_id = 6
    /\ response.status = "saved"
    /\ BagIn(Assignment(2, 2, 1), teacher_subjects)
    /\ \E r \in BagToSet(marks) : r.teacher = 6 /\ r.student = 3

(* C17: every user a TeacherSubject row or a Mark row names as its teacher  *)
(* has the role "teacher"; an assignment an admin saves is one of the user  *)
(* selected by teacher_id, who has the role "teacher"; and an upload_marks  *)
(* request of an admin that selects no teacher leaves no Mark row whose     *)
(* teacher is the admin.                                                    *)
C17_TeacherRole ==
    /\ [](\A r \in BagToSet(teacher_subjects) \cup BagToSet(marks) :
            RoleOf(r.teacher) = "teacher")
    /\ [][(/\ request'.view = "teacher_subjects_manage"
           /\ RoleOf(request'.user) = "admin"
           /\ teacher_subjects' # teacher_subjects)
          => /\ RoleOf(request'.teacher_id) = "teacher"
             /\ teacher_subjects' = teacher_subjects (+)
                   SetToBag({Assignment(request'.teacher_id, request'.subject,
                                        request'.school_class)})]_vars
    /\ [][(AdminUpload(request') /\ request'.teacher_id = 0)
          => /\ marks' = marks
             /\ \A r \in BagToSet(marks') : r.teacher # request'.user]_vars

(* The admin selected the student 3 as the teacher of an assignment and got *)
(* a 404, while assignments and marks of the teachers 2 and 6 are stored    *)
C17_Witness ==
    /\ request.view = "teacher_subjects_manage"
    /\ request.user = 1
    /\ request.teacher_id = 3
    /\ response.status = "404"
    /\ \E r \in BagToSet(teacher_subjects) : r.teacher = 2
    /\ \E r \in BagToSet(marks) : r.teacher = 6
    /\ \E r \in BagToSet(marks) : r.teacher = 2

-----------------------------------------------------------------------------
(* Specification SpecReport: teacher 2, assigned to subjects 1 and 2 in     *)
(* class 1, and teacher 6, assigned to subject 1 there, upload marks, and   *)
(* the reports of the students and of a teacher are requested by nobody     *)
(* logged in, the admin, a teacher and a student.                           *)

ReportTexts == {<<"8", "5">>, <<"8", "5", ".", "0", "1">>, <<"8", "5", ".", "0", "2">>}

InitReport ==
    /\ InitSchool
    /\ orm_update_fields = FALSE
    /\ teacher_subjects =
          SetToBag({Assignment(2, 1, 1), Assignment(2, 2, 1), Assignment(6, 1, 1)})

NextReport ==
    \/ \E a \in {<<2, 1>>, <<2, 2>>, <<6, 1>>}, post \in Posts({3, 4}, ReportTexts) :
          \E order \in Orders(StudentsOf(1)) :
             /\ 4 \in DOMAIN post => post[4] = <<"8", "5">>
             /\ upload_marks(a[1], "POST", a[2], 1, 1, 0, TRUE, post, order)
    \/ \E uid \in {0, 1, 2, 3}, student_id \in {2, 3, 4, 5} :
          student_report(uid, student_id)
    \/ \E uid \in {0, 1, 2, 3}, student_id \in {2, 3, 4, 5} :
          student_results_download(uid, student_id)

SpecReport == InitReport /\ [][NextReport]_vars

(* The score, in hundredths, of the row of the student under the teacher    *)
(* and the subject, 0 without a row, and whether there is a row             *)
HasScore(sid, te, su) ==
    \E r \in BagToSet(marks) : r.student = sid /\ r.teacher = te /\ r.subject = su

ScoreAt(sid, te, su) ==
    IF HasScore(sid, te, su)
    THEN (CHOOSE r \in BagToSet(marks) :
             r.student = sid /\ r.teacher = te /\ r.subject = su).score
    ELSE 0

RowCount(sid) ==
    Cardinality({a \in {<<2, 1>>, <<2, 2>>, <<6, 1>>} : HasScore(sid, a[1], a[2])})

IsReport ==
    /\ request.view \in {"student_report", "student_results_download"}
    /\ response.status \in {"render", "pdf"}

(* C13: student_report and student_results_download compute over exactly    *)
(* the Mark rows of the student requested: total is the sum of their        *)
(* scores, average the mean of the scores rounded to 2 decimal places (a    *)
(* hundredth nearest to the mean), subjects_count the number of distinct    *)
(* subjects, not of rows; all three are 0 for a student with no Mark row.   *)
C13_ReportAggregates ==
    IsReport =>
        LET sid   == request.student_id
            total == ScoreAt(sid, 2, 1) + ScoreAt(sid, 2, 2) + ScoreAt(sid, 6, 1)
            n     == RowCount(sid)
            a     == response.aggregates
        IN  /\ a.total_marks = total
            /\ 2 * Abs((n * a.average_marks) - total) <= n
            /\ a.subjects_count =
                  Cardinality({su \in {1, 2} : HasScore(sid, 2, su) \/ HasScore(sid, 6, su)})
            /\ n = 0 => (a.total_marks = 0 /\ a.average_marks = 0 /\ a.subjects_count = 0)
            /\ {<<x.teacher, x.subject, x.score>> : x \in
                    IF response.status = "pdf" THEN BagToSet(response.marks)
                    ELSE response.marks}
                  = {<<r.teacher, r.subject, r.score>> :
                        r \in {y \in BagToSet(marks) : y.student = sid}}

(* The report of student 3 over 85.00 and 85.01 from teacher 2 in two       *)
(* subjects and 85.00 from teacher 6 in subject 1, while student 4 holds a  *)
(* row of their own: total 255.01, average 85.00, two subjects              *)
C13_Witness ==
    /\ IsReport
    /\ request.student_id = 3
    /\ ScoreAt(3, 2, 1) = 8500 /\ ScoreAt(3, 2, 2) = 8501 /\ ScoreAt(3, 6, 1) = 8500
    /\ HasScore(4, 2, 1)
    /\ response.aggregates =
          [total_marks |-> 25501, average_marks |-> 8500, subjects_count |-> 2]

-----------------------------------------------------------------------------
(* Specification SpecAssign: the teachers 2 and 6 and the admin save        *)
(* teaching assignments through register_subjects and                       *)
(* teacher_subjects_manage in requests that two workers serve at the same   *)
(* time, and teacher 2 deletes assignments.                                 *)

Workers == {1, 2}

InitAssign ==
    /\ InitSchool
    /\ orm_update_fields = FALSE
    /\ teacher_subjects = EmptyBag

NextAssign ==
    \/ \E w \in Workers, uid \in {2, 6}, cl \in Ids(classes) :
          get_or_create_get(w, "register_subjects", uid, 1, cl, 0)
    \/ \E w \in Workers, uid \in {1, 2}, cl \in Ids(classes) :
          get_or_create_get(w, "teacher_subjects_manage", uid, 1, cl, 2)
    \/ \E w \in Workers : get_or_create_create(w)
    \/ \E cl \in Ids(classes) : delete_teacher_subject(2, "POST", Assignment(2, 1, cl))
    \/ \E cl \in Ids(classes) : register_subjects(2, "POST", 1, cl)

SpecAssign == InitAssign /\ [][NextAssign]_vars

(* C16: in every reachable state, also of register_subjects and            *)
(* teacher_subjects_manage requests served at the same time, TeacherSubject *)
(* holds at most one row for a teacher, a subject and a class.              *)
C16_AtMostOne ==
    \A r \in BagToSet(teacher_subjects) : CopiesIn(r, teacher_subjects) <= 1

(* C16, its second half: a request that saves an assignment that is stored *)
(* when the request looks it up adds no row.                                *)
C16_SerialNoSecond ==
    [][(/\ request'.view \in {"register_subjects", "teacher_subjects_manage"}
        /\ BagIn(Assignment(TeacherOfPost(request'.view, request'.user, request'.subject,
                                          request'.school_class, request'.teacher_id),
                            request'.subject, request'.school_class), teacher_subjects))
       => teacher_subjects' = teacher_subjects]_vars

(* Two rows (teacher 2, subject 1, class 1): the admin's request and the    *)
(* teacher's own both found none and both created one; the next save of the *)
(* assignment fails                                                         *)
C16_Duplicate ==
    /\ CopiesIn(Assignment(2, 1, 1), teacher_subjects) = 2
    /\ request.view = "register_subjects"
    /\ request.user = 2
    /\ request.school_class = 1
    /\ response.status = "500"

-----------------------------------------------------------------------------
(* Specification SpecMarks: teacher 6, who teaches the subjects 1 and 2 in  *)
(* class 2, and the admin on the teacher's behalf upload the mark of        *)
(* student 5, the one student of class 2, in requests that two workers      *)
(* serve at the same time.                                                  *)

MarkTexts == {<<"8", "5">>, <<"7", "0">>}

InitMarks ==
    /\ InitSchool
    /\ orm_update_fields = FALSE
    /\ teacher_subjects = SetToBag({Assignment(6, 1, 2), Assignment(6, 2, 2)})

NextMarks ==
    \/ \E w \in Workers, uid \in {1, 6}, su \in Ids(subjects), text \in MarkTexts :
          upload_marks_get(w, uid, su, 2, 1, 6, text)
    \/ \E w \in Workers : upload_marks_create(w)
    \/ \E su \in Ids(subjects), text \in MarkTexts :
          upload_marks(6, "POST", su, 2, 1, 0, TRUE, (5 :> text), <<5>>)

SpecMarks == InitMarks /\ [][NextMarks]_vars

(* The number of rows of Mark with the five-tuple of the row r *)
RowsWithKey(r) == CountRows(marks, Matching(marks, KeyOf(r)))

(* C23: under any interleaving of upload_marks saves served at the same     *)
(* time, Mark never holds more than one row for a (student, subject,        *)
(* teacher, class, semester) five-tuple.                                    *)
C23_OnePerTuple == \A r \in BagToSet(marks) : RowsWithKey(r) <= 1

(* C23, the serial half: an upload_marks save that finds a row of the       *)
(* five-tuple when it looks the tuple up adds no row.                       *)
C23_UpsertNoSecond ==
    [][(/\ request'.view = "upload_marks"
        /\ response'.status = "saved"
        /\ inflight' = inflight
        /\ \E r \in BagToSet(marks) : r.student = 5 /\ r.subject = request'.subject)
       => BagCardinality(marks') = BagCardinality(marks)]_vars

(* Two rows for student 5 in subject 2: the uploads of two workers both     *)
(* found none and both created one; the next upload of the mark fails       *)
C23_Duplicate ==
    /\ \E r \in BagToSet(marks) :
          /\ KeyOf(r) = MarkKey(5, 2, 6, 2, 1)
          /\ RowsWithKey(r) = 2
    /\ request.view = "upload_marks"
    /\ request.user = 6
    /\ request.subject = 2
    /\ response.status = "500"
    /\ inflight = {}

-----------------------------------------------------------------------------
(* Specification SpecSave: the mark of student 5 is saved again and again   *)
(* with a score of 0, 5, ..., 100, with no score and with the empty text.   *)

SaveScores == {PyNum(5 * k, 0) : k \in 0..20} \cup {PyNone, PyStr(Str0)}

InitSave ==
    /\ users = SchoolUsers
    /\ departments = SchoolCourse.departments
    /\ courses = SchoolCourse.courses
    /\ subjects = SchoolCourse.subjects
    /\ classes = SchoolCourse.classes
    /\ semesters = SchoolSemesters
    /\ announcements = <<>>
    /\ events = EmptyBag
    /\ inflight = {}
    /\ orm_update_fields = FALSE
    /\ request = NoRequest
    /\ response = NoResponse
    /\ teacher_subjects = SetToBag({Assignment(6, 2, 2)})
    /\ marks = SetToBag({MarkRow(MarkKey(5, 2, 6, 2, 1), 8500, "B")})

NextSave == \E row \in BagToSet(marks), score \in SaveScores : mark_save(row, score)

SpecSave == InitSave /\ [][NextSave]_vars

(* C24: a save of a Mark whose score is null or the empty text succeeds     *)
(* and leaves the stored row without a grade, whatever grade it held.       *)
C24_NullClearsGrade ==
    [][(request'.view = "mark_save" /\ ~ScoreGiven(request'.score))
       => /\ response'.status = "saved"
          /\ \A r \in BagToSet(marks') : r.grade = ""]_vars

(* C24 as the code has it: the save of a Mark with no score raises and the  *)
(* row keeps its score and its grade.                                       *)
C24_NullSaveRaises ==
    [][(request'.view = "mark_save" /\ ~ScoreGiven(request'.score))
       => response'.status = "500" /\ marks' = marks]_vars

(* The row of grade A, saved with no score, is stored with grade A *)
C24_GradeKept ==
    /\ request.view = "mark_save"
    /\ request.score = PyNone
    /\ request.row.grade = "A"
    /\ response.status = "500"
    /\ BagIn(request.row, marks)

-----------------------------------------------------------------------------
(* Specification SpecOwn: teacher 2 uploads marks of the students 3 and 4   *)
(* of class 1, and the three result views of a student are requested by     *)
(* nobody logged in, the admin and the students 3 and 4.                    *)

OwnTexts == {<<"8", "5">>, <<"7", "0">>}

InitOwn ==
    /\ InitSchool
    /\ orm_update_fields = FALSE
    /\ teacher_subjects = SetToBag({Assignment(2, 1, 1)})

NextOwn ==
    \/ \E post \in Posts({3, 4}, OwnTexts), order \in Orders(StudentsOf(1)) :
          upload_marks(2, "POST", 1, 1, 1, 0, TRUE, post, order)
    \/ \E uid \in {0, 1, 3, 4} : student_results(uid)
    \/ \E uid \in {0, 1, 3, 4}, student_id \in {3, 4} : student_report(uid, student_id)
    \/ \E uid \in {0, 1, 3, 4}, student_id \in {3, 4} :
          student_results_download(uid, student_id)

SpecOwn == InitOwn /\ [][NextOwn]_vars

(* The response is a page or a PDF of marks given to a student *)
ServedToStudent ==
    /\ request.view \in {"student_results", "student_report", "student_results_download"}
    /\ RoleOf(request.user) = "student"
    /\ response.status \in {"render", "pdf"}

(* The students whose Mark rows the response holds *)
StudentsServed ==
    {r.student : r \in IF request.view = "student_report" THEN response.marks
                       ELSE BagToSet(response.marks)}

(* C30: a student reads only their own marks: in every response of          *)
(* student_results, student_report and student_results_download to a        *)
(* request of a student, every Mark row is a row of that student.           *)
C30_OwnMarksOnly == ServedToStudent => StudentsServed \subseteq {request.user}

(* student_results alone: the rows are those of the student who asks *)
C30_ResultsOwn ==
    (ServedToStudent /\ request.view = "student_results")
        => response.marks = MarksOf(marks, request.user)

(* Student 3, marked 70, downloads the results of student 4 and is given    *)
(* the row of student 4 with 85                                             *)
C30_OtherRead ==
    /\ ServedToStudent
    /\ request.view = "student_results_download"
    /\ request.user = 3
    /\ request.student_id = 4
    /\ {<<r.student, r.score>> : r \in BagToSet(marks)} = {<<3, 7000>>, <<4, 8500>>}
    /\ {<<r.student, r.score>> : r \in BagToSet(response.marks)} = {<<4, 8500>>}
    /\ response.aggregates.total_marks = 8500

(* Student 4 opens the report of student 3 and is shown the mark 70 *)
C30_ReportOfOther ==
    /\ ServedToStudent
    /\ request.view = "student_report"
    /\ request.user = 4
    /\ request.student_id = 3
    /\ {<<r.student, r.score>> : r \in response.marks} = {<<3, 7000>>}

-----------------------------------------------------------------------------
(* Specification SpecImported: the store holds a Mark row of student 3      *)
(* with no score (the column admits NULL; loaddata and QuerySet.update      *)
(* write it without Mark.save) next to a row of student 4.  Teacher 2       *)
(* uploads marks for class 1, and the reports of the students are opened.   *)

ImportedMarks ==
    SetToBag({MarkRow(MarkKey(3, 1, 2, 1, 1), NullScore, ""),
              MarkRow(MarkKey(4, 1, 2, 1, 1), 8500, "B")})

InitImported ==
    /\ users = SchoolUsers
    /\ departments = SchoolCourse.departments
    /\ courses = SchoolCourse.courses
    /\ subjects = SchoolCourse.subjects
    /\ classes = SchoolCourse.classes
    /\ semesters = SchoolSemesters
    /\ teacher_subjects = SetToBag({Assignment(2, 1, 1), Assignment(2, 2, 1)})
    /\ marks = ImportedMarks
    /\ announcements = <<>>
    /\ events = EmptyBag
    /\ inflight = {}
    /\ orm_update_fields = FALSE
    /\ request = NoRequest
    /\ response = NoResponse

NextImported ==
    \/ \E su \in Ids(subjects), post \in Posts({3, 4}, {<<"7", "0">>}) :
          \E order \in Orders(StudentsOf(1)) :
              upload_marks(2, "POST", su, 1, 1, 0, TRUE, post, order)
    \/ \E uid \in {0, 1, 2, 3}, student_id \in {2, 3, 4} : student_report(uid, student_id)
    \/ \E uid \in {0, 1, 3}, student_id \in {3, 4} :
          student_results_download(uid, student_id)

SpecImported == InitImported /\ [][NextImported]_vars

(* A report request that passes the role check and finds the student *)
ReportAsked ==
    /\ request.view = "student_report"
    /\ RoleOf(request.user) \in {"admin", "teacher", "student"}
    /\ RoleOf(request.student_id) = "student"

(* The student of the request holds a row with no score *)
HoldsNull == \E r \in BagToSet(marks) : r.student = request.student_id /\ r.score = NullScore

(* C25: student_report gives a Mark whose score is missing the grade "F",   *)
(* the grade Mark.calculate_grade returns for it, and the report is         *)
(* produced.                                                                *)
C25_MissingScoreIsF ==
    ReportAsked =>
        /\ response.status = "render"
        /\ \A g \in response.marks :
              g.score = NullScore => g.result.grade = calculate_grade(PyNone)

(* C25 as the code has it: get_grade_and_gpa raises for the missing score   *)
(* calculate_grade turns into "F", and the report of a student who holds    *)
(* such a row is a server error; the other reports are produced.            *)
C25_MissingScoreRaises ==
    /\ calculate_grade(PyNone) = "F"
    /\ get_grade_and_gpa(PyNone).raised
    /\ ReportAsked => (response.status = IF HoldsNull THEN "500" ELSE "render")

(* The admin's request for the report of student 3 ended in the error *)
C25_ReportFails ==
    /\ ReportAsked
    /\ request.user = 1
    /\ request.student_id = 3
    /\ HoldsNull
    /\ response.status = "500"

-----------------------------------------------------------------------------
(* Specification SpecClass: the admin moves the students 3 and 5 between    *)
(* the classes 1 and 2, and teacher 2, who teaches subject 1 in both,       *)
(* uploads marks for either class with a form that carries values for the   *)
(* students 3 and 5, for the teacher's own id and for an id no user has.    *)

ClassPost ==
    (3 :> <<"8", "5">>) @@ (5 :> <<"9", "0">>) @@ (2 :> <<"7", "0">>) @@ (9 :> <<"6", "0">>)

InitClass ==
    /\ InitSchool
    /\ orm_update_fields = FALSE
    /\ teacher_subjects = SetToBag({Assignment(2, 1, 1), Assignment(2, 1, 2)})

NextClass ==
    \/ \E pk \in {3, 5}, class_id \in Ids(classes) :
          student_update(1, "POST", pk, <<"s">>, 1, 1, class_id, 1)
    \/ \E cl \in Ids(classes) : \E order \in Orders(StudentsOf(cl)) :
          upload_marks(2, "POST", 1, cl, 1, 0, TRUE, ClassPost, order)

SpecClass == InitClass /\ [][NextClass]_vars

(* The row r is written by the step: it is stored more often after it *)
Written_by_step(r) == CopiesIn(r, marks') > CopiesIn(r, marks)

(* The students whose school_class is the class of the request when it is   *)
(* made                                                                     *)
InClass(cl) == {u.id : u \in {x \in users : x.role = "student" /\ x.school_class = cl}}

(* C27: upload_marks writes Mark rows only for the users of role student    *)
(* whose class is the selected class when the request is made, each row     *)
(* with the selected subject, class and semester; the rows of every other   *)
(* user stay as they are, whatever marks_<id> the form carries.             *)
C27_ClassOnly ==
    [][request'.view = "upload_marks"
       => /\ \A r \in BagToSet(marks') :
                Written_by_step(r)
                    => /\ r.student \in InClass(request'.school_class)
                       /\ r.student \in DOMAIN request'.post
                       /\ r.subject = request'.subject
                       /\ r.school_class = request'.school_class
                       /\ r.semester = request'.semester
          /\ \A r \in BagToSet(marks) :
                r.student \notin InClass(request'.school_class)
                    => CopiesIn(r, marks') = CopiesIn(r, marks)]_vars

(* Student 3, marked in class 1 and then moved, was marked in class 2, and  *)
(* student 5, moved to class 1, got no row in class 2; neither did the      *)
(* teacher or user 9                                                        *)
C27_Witness ==
    /\ request.view = "upload_marks"
    /\ request.school_class = 2
    /\ response.status = "saved"
    /\ InClass(2) = {3}
    /\ {<<r.student, r.school_class>> : r \in BagToSet(marks)} = {<<3, 1>>, <<3, 2>>}
    /\ {2, 5, 9} \subseteq DOMAIN request.post

-----------------------------------------------------------------------------
(* Specification SpecResults: teacher 2 registers and deletes teaching      *)
(* assignments and uploads marks; teachers 2 and 6 and the admin open the   *)
(* three result views of a teacher.                                         *)

InitResults ==
    /\ InitSchool
    /\ orm_update_fields = FALSE
    /\ teacher_subjects = EmptyBag

NextResults ==
    \/ \E su \in Ids(subjects), cl \in Ids(classes) : register_subjects(2, "POST", su, cl)
    \/ \E su \in Ids(subjects), cl \in Ids(classes) :
          delete_teacher_subject(2, "POST", Assignment(2, su, cl))
    \/ \E su \in Ids(subjects), cl \in Ids(classes) :
          \E order \in Orders(StudentsOf(cl)) :
              upload_marks(2, "POST", su, cl, 1, 0, TRUE, GatePost, order)
    \/ \E uid \in {1, 2, 6}, su \in Ids(subjects), cl \in Ids(classes) :
          class_marks_pdf(uid, cl, su)
    \/ \E uid \in {1, 2, 6}, su \in Ids(subjects), cl \in Ids(classes), se \in {1, 2} :
          teacher_results_pdf(uid, su, cl, se)
    \/ \E uid \in {1, 2, 6}, su \in {0} \cup Ids(subjects), cl \in {0} \cup Ids(classes) :
          teachers_results(uid, su, cl, 0)

SpecResults == InitResults /\ [][NextResults]_vars

(* The response is the page or the PDF of one of the result views of a      *)
(* teacher                                                                  *)
IsResults(view) ==
    /\ request.view = view
    /\ response.status \in {"render", "pdf"}

Unassigned(rows) ==
    {r \in BagToSet(rows) : ~AssignmentExists(request.user, r.subject, r.school_class)}

(* C15: the marks that class_marks_pdf, teacher_results_pdf and the         *)
(* effective teachers_results return to a teacher are marks of (subject,    *)
(* class) pairs for which TeacherSubject holds a row of that teacher at the *)
(* time of the request, also after delete_teacher_subject deleted one.      *)
C15_AssignedOnly ==
    \A view \in {"class_marks_pdf", "teacher_results_pdf", "teachers_results"} :
        IsResults(view) => Unassigned(response.marks) = {}

(* The two PDF views, which test the assignment before they read Mark *)
C15_PdfAssignedOnly ==
    \A view \in {"class_marks_pdf", "teacher_results_pdf"} :
        IsResults(view) => /\ Unassigned(response.marks) = {}
                           /\ \A r \in BagToSet(response.marks) :
                                 /\ r.teacher = request.user
                                 /\ r.subject = request.subject
                                 /\ r.school_class = request.school_class

(* Teacher 2, who holds no assignment any more, is shown the marks uploaded *)
(* for subject 1 in class 1                                                 *)
C15_ShownUnassigned ==
    /\ IsResults("teachers_results")
    /\ request.user = 2
    /\ teacher_subjects = EmptyBag
    /\ \E r \in BagToSet(response.marks) :
          r.teacher = 2 /\ r.subject = 1 /\ r.school_class = 1 /\ r.student = 3

-----------------------------------------------------------------------------
(* Specification SpecAdmission: the admin registers and deletes students,   *)
(* with MaxWorkers requests to student_create served at a time, and adds    *)
(* users in the admin site.  Primary keys stay within MaxUserId and the     *)
(* numbers student_create scans within MaxNumber.                           *)

MaxUserId == 3

MaxWorkers == 2

MaxNumber == 4

(* Users typed into the admin site: a student whose number has no numeric   *)
(* suffix, a teacher holding a number with the prefix, a student holding a  *)
(* number ahead of the sequence                                             *)
SiteUsers ==
    {<<"student", <<Prefix \o <<"x">>>>>>,
     <<"teacher", AdmissionNumber(2)>>,
     <<"student", AdmissionNumber(3)>>}

InitAdmission ==
    /\ users = {UserRow(1, "admin", NoAdmission, <<"a">>, 0, 0, 0, 0)}
    /\ departments = SchoolCourse.departments
    /\ courses = SchoolCourse.courses
    /\ subjects = {}
    /\ classes = {c \in SchoolCourse.classes : c.id = 1}
    /\ semesters = SchoolSemesters
    /\ teacher_subjects = EmptyBag
    /\ marks = EmptyBag
    /\ announcements = <<>>
    /\ events = EmptyBag
    /\ inflight = {}
    /\ orm_update_fields = FALSE
    /\ request = NoRequest
    /\ response = NoResponse

StudentCreate ==
    \E w \in 1..MaxWorkers, uid \in {0, 1}, method \in Methods :
        /\ MaxNum(UsedAdmissionNumbers(users), 0) < MaxNumber
        /\ student_create(w, uid, method)

StudentCreateInsert ==
    \E w \in 1..MaxWorkers :
        /\ NewId(users) <= MaxUserId
        /\ student_create_insert(w, <<"s">>, 1, 1, 1, 1)

StudentDelete ==
    \E pk \in 2..MaxUserId, method \in Methods : student_delete(1, method, pk)

AdminSiteAddUser ==
    \E s \in SiteUsers :
        /\ NewId(users) <= MaxUserId
        /\ admin_site_add_user(s[1], s[2])

NextAdmission ==
    \/ StudentCreate
    \/ StudentCreateInsert
    \/ StudentDelete
    \/ AdminSiteAddUser

SpecAdmission == InitAdmission /\ [][NextAdmission]_vars

(* The admission numbers of the students *)
StudentNumbers(us) ==
    {u.admission_number[1] :
        u \in {x \in us : x.role = "student" /\ x.admission_number # NoAdmission}}

(* The numeric suffixes of the students' numbers that start with "prog" *)
NumericSuffixes(us) ==
    {StrToNat(SubSeq(a, 5, Len(a))) :
        a \in {x \in StudentNumbers(us) :
                  /\ Len(x) > 4
                  /\ SubSeq(x, 1, 4) = <<"p", "r", "o", "g">>
                  /\ AllDigits(SubSeq(x, 5, Len(x)))}}

LargestSuffix(us) ==
    IF NumericSuffixes(us) = {} THEN 0
    ELSE CHOOSE n \in NumericSuffixes(us) : \A k \in NumericSuffixes(us) : k <= n

(* "prog" and the four digits of n < 10000 *)
ProgNumber(n) ==
    <<"p", "r", "o", "g", Digits[((n \div 1000) % 10) + 1], Digits[((n \div 100) % 10) + 1],
      Digits[((n \div 10) % 10) + 1], Digits[(n % 10) + 1]>>

C6_UniqueAdmission ==
    \A u, v \in users :
        (u.id # v.id /\ u.admission_number # NoAdmission)
            => u.admission_number # v.admission_number

(* A student_create lost the race: its insert was refused for a number a    *)
(* student registered meanwhile holds                                       *)
C6_Witness ==
    /\ request.view = "student_create"
    /\ response.status = "500"
    /\ \E u \in users : /\ u.role = "student"
                        /\ u.admission_number = <<response.admission_number>>

(* The users that hold the admission number adm *)
Holders(us, adm) == {u \in us : u.admission_number = <<adm>>}

(* C22: student_create is not atomic between the scan for the next number   *)
(* and the insert.  When the insert of a request finds the number it        *)
(* scanned held by a user stored meanwhile, the request ends in a write     *)
(* error and stores nothing; otherwise it stores one student with the       *)
(* number.  Either way at most one row holds the number.                    *)
C22_RaceOneStored ==
    [][\A f \in inflight \ inflight' :
          /\ Holders(users, f.admission_number) # {}
                => response'.status = "500" /\ users' = users
          /\ Holders(users, f.admission_number) = {}
                => /\ response'.status = "saved"
                   /\ \E u \in users' \ users :
                         /\ u.role = "student"
                         /\ users' = users \cup {u}
                         /\ Holders(users', f.admission_number) = {u}
          /\ Cardinality(Holders(users', f.admission_number)) <= 1]_vars

(* Two POSTs scanned the same number *)
SameScan == \E f, g \in inflight : f.worker # g.worker /\ f.admission_number = g.admission_number

(* Of two POSTs that scanned prog0001, worker 1 stored its student and      *)
(* the insert of worker 2 ended in the write error                          *)
C22_Witness ==
    /\ request.view = "student_create"
    /\ request.worker = 2
    /\ response = [status |-> "500", admission_number |-> ProgNumber(1)]
    /\ inflight = {}
    /\ \E u \in users : /\ Holders(users, ProgNumber(1)) = {u}
                        /\ u.role = "student"
                        /\ u.first_name = <<"s">>

(* The students a step deletes that hold the highest number *)
HighestDeleted ==
    {u \in users \ users' :
        /\ request'.view = "student_delete"
        /\ LargestSuffix(users) > 0
        /\ u.admission_number = <<ProgNumber(LargestSuffix(users))>>}

(* The number a scan returned is above the suffix of every stored student *)
AboveAll ==
    (request'.view = "student_create" /\ response'.status \in {"render", "scanned"})
        => /\ \E n \in 1..(MaxNumber + 1) : response'.admission_number = ProgNumber(n)
           /\ \A n \in NumericSuffixes(users) :
                 \E k \in (n + 1)..(MaxNumber + 1) :
                     response'.admission_number = ProgNumber(k)

C29_GapBelow ==
    /\ request.view = "student_delete"
    /\ response.status = "deleted"
    /\ StudentNumbers(users) = {ProgNumber(1)}
    /\ NumericSuffixes(users) = {1}
    /\ next_admission_number(users) = ProgNumber(2)

-----------------------------------------------------------------------------
(* Specification SpecNumbers: the admin opens the registration form, which  *)
(* shows the next admission number, in a school whose students hold some   *)
(* of prog0001 and prog0003 and where student 2 holds a number typed into   *)
(* the admin site that starts with "prog" and goes on with something else;  *)
(* students are deleted in between.                                         *)

OddNumbers ==
    {Prefix, Prefix \o <<"x">>, Prefix \o <<"7", "x">>, Prefix \o <<"-">>,
     Prefix \o Prefix \o <<"0", "0", "0", "7">>, Prefix \o <<"1", "2">> \o Prefix}

InitNumbers ==
    /\ \E odd \in OddNumbers, held \in SUBSET {<<3, 1>>, <<4, 3>>} :
          users = {UserRow(1, "admin", NoAdmission, <<"a">>, 0, 0, 0, 0),
                   UserRow(2, "student", <<odd>>, <<"s">>, 1, 1, 1, 1)}
                  \cup {UserRow(h[1], "student", AdmissionNumber(h[2]), <<"s">>, 1, 1, 1, 1) :
                           h \in held}
    /\ departments = SchoolCourse.departments
    /\ courses = SchoolCourse.courses
    /\ subjects = SchoolCourse.subjects
    /\ classes = SchoolCourse.classes
    /\ semesters = SchoolSemesters
    /\ teacher_subjects = EmptyBag
    /\ marks = EmptyBag
    /\ announcements = <<>>
    /\ events = EmptyBag
    /\ inflight = {}
    /\ orm_update_fields = FALSE
    /\ request = NoRequest
    /\ response = NoResponse

NextNumbers ==
    \/ \E uid \in {0, 1, 2} : student_create(1, uid, "GET")
    \/ \E pk \in {3, 4} : student_delete(1, "POST", pk)

SpecNumbers == InitNumbers /\ [][NextNumbers]_vars

(* The text of the admission number adm after its first four characters *)
Remainder(adm) == SubSeq(adm, 5, Len(adm))

(* A student whose number starts with "prog" and does not go on with a      *)
(* number                                                                   *)
OddStudent(u) ==
    /\ u.role = "student"
    /\ u.admission_number # NoAdmission
    /\ StartsWith(u.admission_number[1], Prefix)
    /\ ~ParseInt(Remainder(u.admission_number[1])).ok

(* The users, the students of such a number holding none *)
WithoutOdd(us) ==
    {IF OddStudent(u) THEN [u EXCEPT !.admission_number = NoAdmission] ELSE u : u \in us}

(* The form was rendered with a number *)
Allocated == request.view = "student_create" /\ response.status \in {"render", "scanned"}

(* C26: a student's admission number that starts with "prog" and whose      *)
(* remainder is no number is skipped by _next_admission_number: the         *)
(* allocation does not fail and gives the number it would give if that      *)
(* student held no admission number.                                        *)
C26_OddSkipped ==
    (request.view = "student_create" /\ request.user = 1)
        => /\ response.status = "render"
           /\ response.admission_number = next_admission_number(WithoutOdd(users))

(* C26 for the numbers that hold the prefix once: those are skipped *)
C26_OddSkippedOnce ==
    (/\ request.view = "student_create" /\ request.user = 1
     /\ \A u \in users :
           OddStudent(u) => Remove(Remainder(u.admission_number[1]), Prefix)
                               = Remainder(u.admission_number[1]))
        => /\ response.status = "render"
           /\ response.admission_number = next_admission_number(WithoutOdd(users))

(* Student 2 holds progprog0007 and no other student a number: the form     *)
(* shows prog0008, not prog0001                                             *)
C26_PrefixTwice ==
    /\ Allocated
    /\ \E u \in users : u.id = 2 /\ u.admission_number = <<Prefix \o ProgNumber(7)>>
    /\ StudentNumbers(users) = {Prefix \o ProgNumber(7)}
    /\ response.admission_number = ProgNumber(8)

-----------------------------------------------------------------------------
(* Specification SpecSemester: the admin, and a teacher, create and edit    *)
(* semesters, up to MaxSemesters of them.                                   *)

MaxSemesters == 2

(* Submitted dates: 10 January padded with blanks, 30 June with a month of *)
(* one digit and of two, a day that does not exist, and no date             *)
JanuaryPadded == <<" ", "2", "0", "2", "4", "-", "0", "1", "-", "1", "0", " ">>

JuneShort == <<"2", "0", "2", "4", "-", "6", "-", "3", "0">>

June == <<"2", "0", "2", "4", "-", "0", "6", "-", "3", "0">>

FebruaryThirty == <<"2", "0", "2", "4", "-", "0", "2", "-", "3", "0">>

DateTexts == {Str0, JanuaryPadded, JuneShort, June, FebruaryThirty}

NameTexts == {<<" ">>, <<"S", "1">>}

InitSemester ==
    /\ users = SchoolUsers
    /\ departments = {}
    /\ courses = {}
    /\ subjects = {}
    /\ classes = {}
    /\ semesters = {}
    /\ teacher_subjects = EmptyBag
    /\ marks = EmptyBag
    /\ announcements = <<>>
    /\ events = EmptyBag
    /\ inflight = {}
    /\ orm_update_fields = FALSE
    /\ request = NoRequest
    /\ response = NoResponse

SemesterCreate ==
    \/ \E name \in NameTexts, start_date \in DateTexts, end_date \in DateTexts :
          /\ Cardinality(semesters) < MaxSemesters
          /\ semester_create(1, "POST", name, start_date, end_date)
    \/ \E uid \in {0, 1, 2}, method \in Methods :
          /\ Cardinality(semesters) < MaxSemesters
          /\ semester_create(uid, method, <<"S", "1">>, JanuaryPadded, June)

SemesterEdit ==
    \/ \E pk \in 1..(MaxSemesters + 1), name \in NameTexts,
          start_date \in DateTexts, end_date \in DateTexts :
          semester_edit(1, "POST", pk, name, start_date, end_date)
    \/ \E uid \in {0, 1, 2}, method \in Methods :
          semester_edit(uid, method, 1, <<"S", "1">>, June, JanuaryPadded)

NextSemester ==
    \/ SemesterCreate
    \/ SemesterEdit

SpecSemester == InitSemester /\ [][NextSemester]_vars

(* The day count a date stands for, for comparing dates *)
DayNumber(d) == (d[1] * 10000) + (d[2] * 100) + d[3]

(* The request submits two dates and the start is later than the end *)
StartLaterThanEnd(req) ==
    /\ req.view \in {"semester_create", "semester_edit"}
    /\ ParseDate(Strip(req.start_date)).ok
    /\ ParseDate(Strip(req.end_date)).ok
    /\ DayNumber(ParseDate(Strip(req.start_date)).date)
         > DayNumber(ParseDate(Strip(req.end_date)).date)

(* C8: a semester_create or semester_edit request whose start_date is later *)
(* than its end_date creates and modifies no Semester row and, coming from  *)
(* the admin as a POST with a name (and for an existing semester), is       *)
(* answered with the rejection; every stored Semester has start_date <=     *)
(* end_date after every request.                                            *)
C8_StartNotAfterEnd ==
    [][/\ StartLaterThanEnd(request') =>
            /\ semesters' = semesters
            /\ (/\ request'.user = 1
                /\ request'.method = "POST"
                /\ Strip(request'.name) # Str0
                /\ request'.view = "semester_edit" => SemesterExists(request'.pk))
               => (response'.status = "rejected"
                   /\ response'.error = "start_after_end")
       /\ \A s \in semesters' : DayNumber(s.start_date) <= DayNumber(s.end_date)]_vars

(* An edit of a stored semester to 30 June .. 10 January was rejected and   *)
(* the row kept                                                             *)
C8_Witness ==
    /\ request.view = "semester_edit"
    /\ request.start_date = June
    /\ request.end_date = JanuaryPadded
    /\ response.status = "rejected"
    /\ response.error = "start_after_end"
    /\ \E s \in semesters : /\ s.id = request.pk
                            /\ s.start_date = <<2024, 1, 10>>
                            /\ s.end_date = <<2024, 6, 30>>

-----------------------------------------------------------------------------
(* Specification SpecScenario: from a store that holds the admin alone, the *)
(* admin builds a school through the create views (a department, a course,  *)
(* classes, a subject, a semester, students, a teacher), assigns the        *)
(* teacher, the teacher uploads marks and the users open the reports.       *)

MaxClasses == 1

MaxStudents == 2

ScenarioTexts == {<<"8", "5">>, <<"7", "0">>}

InitScenario ==
    /\ users = {UserRow(1, "admin", NoAdmission, <<"a">>, 0, 0, 0, 0)}
    /\ departments = {}
    /\ courses = {}
    /\ subjects = {}
    /\ classes = {}
    /\ semesters = {}
    /\ teacher_subjects = EmptyBag
    /\ marks = EmptyBag
    /\ announcements = <<>>
    /\ events = EmptyBag
    /\ inflight = {}
    /\ orm_update_fields = FALSE
    /\ request = NoRequest
    /\ response = NoResponse

RolesIn(role) == {u.id : u \in {x \in users : x.role = role}}

NextScenario ==
    \/ department_create(1, "POST", <<"S", "c">>)
    \/ \E d \in Ids(departments) :
          courses = {} /\ course_create(1, "POST", <<"P", "h">>, d)
    \/ \E c \in Ids(courses) :
          Cardinality(classes) < MaxClasses /\ class_create(1, "POST", <<"1", "0">>, c)
    \/ \E c \in Ids(courses) :
          subjects = {} /\ subject_create(1, "POST", <<"M">>, c)
    \/ semesters = {} /\ semester_create(1, "POST", <<"S", "1">>, JanuaryPadded, June)
    \/ Cardinality(RolesIn("student")) < MaxStudents /\ student_create(1, 1, "POST")
    \/ \E d \in Ids(departments), c \in Ids(courses), k \in Ids(classes),
          s \in Ids(semesters) : student_create_insert(1, <<"s">>, d, c, k, s)
    \/ \E d \in Ids(departments) :
          RolesIn("teacher") = {} /\ teacher_create(1, "POST", <<"t">>, d)
    \/ \E te \in RolesIn("teacher"), su \in Ids(subjects), k \in Ids(classes) :
          teacher_subjects_manage(1, "POST", su, k, te)
    \/ \E te \in RolesIn("teacher"), su \in Ids(subjects), k \in Ids(classes),
          s \in Ids(semesters) :
          \E post \in Posts(StudentsOf(k), ScenarioTexts), order \in Orders(StudentsOf(k)) :
             upload_marks(te, "POST", su, k, s, 0, TRUE, post, order)
    \/ \E sid \in RolesIn("student") : \E uid \in {1, sid} : student_report(uid, sid)

SpecScenario == InitScenario /\ [][NextScenario]_vars

(* The student registered first *)
FirstStudent(sid) ==
    /\ sid \in RolesIn("student")
    /\ \A other \in RolesIn("student") : sid <= other

(* The only Mark row of the student sid is one of 85.00 that an assigned    *)
(* teacher holds for the class of the student                               *)
OneMarkOf85(sid) ==
    /\ BagCardinality(MarksOf(marks, sid)) = 1
    /\ \A r \in BagToSet(MarksOf(marks, sid)) :
          /\ r.score = 85 * (10 ^ DecimalPlaces)
          /\ r.school_class = UserById(sid).school_class
          /\ AssignmentExists(r.teacher, r.subject, r.school_class)

(* C14: after a department, a course under it, a class and a subject under *)
(* the course, a semester, a first student registered by student_create in  *)
(* that class, a teacher and an assignment of the teacher were created and  *)
(* the teacher saved the score 85 for the student: the first student holds  *)
(* the admission number prog0001, the save stored one row of 85.00 with the *)
(* grade "B", and the report of the student shows exactly one mark, with    *)
(* the grade "B" and the grade point 3.0, the total 85, the average 85.00   *)
(* and a subjects_count of 1.                                               *)
C14_Scenario ==
    /\ [](\A sid \in Ids(users) :
            FirstStudent(sid) => UserById(sid).admission_number = AdmissionNumber(1))
    /\ [][\A sid \in Ids(users) :
            (/\ IsSave(request', response')
             /\ RoleOf(request'.user) = "teacher"
             /\ MarksOf(marks, sid) = EmptyBag
             /\ sid \in DOMAIN request'.post
             /\ request'.post[sid] = <<"8", "5">>)
            => /\ OneMarkOf85(sid)'
               /\ \A r \in BagToSet(MarksOf(marks', sid)) :
                     r.grade = "B" /\ r.teacher = request'.user]_vars
    /\ [](\A sid \in Ids(users) :
            (/\ request.view = "student_report"
             /\ request.student_id = sid
             /\ FirstStudent(sid)
             /\ OneMarkOf85(sid))
            => /\ response.status = "render"
               /\ Cardinality(response.marks) = 1
               /\ \A g \in response.marks :
                     g.copies = 1 /\ g.result.grade = "B" /\ g.result.gpa = 3
               /\ response.aggregates
                     = [total_marks |-> 8500, average_marks |-> 8500, subjects_count |-> 1])

(* The first student reads the report of their one mark of 85 while the     *)
(* second student of the class holds a mark as well                         *)
C14_Witness ==
    /\ request.view = "student_report"
    /\ response.status = "render"
    /\ FirstStudent(request.student_id)
    /\ request.user = request.student_id
    /\ OneMarkOf85(request.student_id)
    /\ UserById(request.student_id).admission_number = AdmissionNumber(1)
    /\ response.aggregates.subjects_count = 1
    /\ \E r \in BagToSet(marks) : r.student # request.student_id

-----------------------------------------------------------------------------
(* Specification SpecFeed: the admin creates, edits and deletes             *)
(* announcements and events, and the admin, a teacher and a student open    *)
(* the dashboard.  The two feeds are computed apart from each other, and    *)
(* the specification fills one of the two tables at a time, with up to      *)
(* MaxItems rows.                                                           *)

MaxItems == 7

EventDates == {JanuaryPadded, JuneShort}

InitFeed ==
    /\ users = SchoolUsers
    /\ departments = {}
    /\ courses = {}
    /\ subjects = {}
    /\ classes = {}
    /\ semesters = {}
    /\ teacher_subjects = EmptyBag
    /\ marks = EmptyBag
    /\ announcements = <<>>
    /\ events = EmptyBag
    /\ inflight = {}
    /\ orm_update_fields = FALSE
    /\ request = NoRequest
    /\ response = NoResponse

Dashboard == \E uid \in {1, 2, 3} : dashboard(uid)

AdminListings ==
    \/ \E uid \in {1, 2} : announcements_list(uid)
    \/ \E uid \in {1, 2} : events_list(uid)

AnnouncementCreate ==
    \/ \E visibility \in Visibilities :
          /\ events = EmptyBag
          /\ Len(announcements) < MaxItems
          /\ announcement_create(1, "POST", visibility)
    \/ \E uid \in {1, 2}, method \in Methods :
          /\ uid = 1 => method = "GET"
          /\ announcement_create(uid, method, "all")

AnnouncementEdit ==
    \E pk \in {1, 2}, visibility \in {"teacher", "student"} :
        announcement_edit(1, "POST", pk, visibility)

AnnouncementDelete == \E pk \in {1, MaxItems} : announcement_delete(1, "POST", pk)

EventCreate ==
    \/ \E date \in EventDates, visibility \in Visibilities :
          /\ announcements = <<>>
          /\ BagCardinality(events) < MaxItems
          /\ event_create(1, "POST", date, visibility)
    \/ \E uid \in {1, 2} :
          event_create(uid, "POST", IF uid = 1 THEN FebruaryThirty ELSE June, "all")

EventDelete ==
    \E row \in BagToSet(events) \cup {EventRow(<<2024, 2, 1>>, "all")} :
        event_delete(1, "POST", row)

NextFeed ==
    \/ Dashboard
    \/ AdminListings
    \/ AnnouncementCreate
    \/ AnnouncementEdit
    \/ AnnouncementDelete
    \/ EventCreate
    \/ EventDelete

SpecFeed == InitFeed /\ [][NextFeed]_vars

(* Whether the role may see the visibility, as the contract states it *)
MaySee(role, visibility) ==
    role = "admin" \/ visibility = "all" \/ visibility = role

(* The announcements a rendered page shows *)
Shown == {response.announcements[i] : i \in DOMAIN response.announcements}

(* The number of announcements later than i that the role may see *)
LaterThan(i, role) ==
    Cardinality({j \in (i + 1)..Len(announcements) :
                    MaySee(role, announcements[j].visibility)})

(* The events the role may see *)
EventsSeen(role) == {x \in BagToSet(events) : MaySee(role, x.visibility)}

IsDashboard == request.view = "dashboard" /\ response.status = "render"

(* The admin listings show every row *)
ListingsUnfiltered ==
    /\ (request.view = "announcements_list" /\ response.status = "render")
          => Shown = 1..Len(announcements)
    /\ (request.view = "events_list" /\ response.status = "render")
          => response.events = events

(* C7 as stated: on a dashboard every announcement and event the role may  *)
(* see (visibility "all" or the role's own; any for the admin's latest      *)
(* five) appears, none of the other role's does, and the admin listings     *)
(* show every row.                                                          *)
C7_Visibility ==
    /\ ListingsUnfiltered
    /\ IsDashboard =>
         /\ \A i \in 1..Len(announcements) :
               IF RoleOf(request.user) = "admin"
               THEN (i \in Shown) <=> (LaterThan(i, "admin") < FeedLimit)
               ELSE (i \in Shown)
                       <=> MaySee(RoleOf(request.user), announcements[i].visibility)
         /\ \A x \in BagToSet(events) :
               IF MaySee(RoleOf(request.user), x.visibility)
               THEN RoleOf(request.user) # "admin"
                       => CopiesIn(x, response.events) = CopiesIn(x, events)
               ELSE ~BagIn(x, response.events)

(* C7, amended: on a dashboard an announcement appears iff the role may see *)
(* it and fewer than FeedLimit later announcements the role may see exist;  *)
(* the events shown are FeedLimit events the role may see (all of them when *)
(* there are fewer), none of an earlier date than one left out; nothing of  *)
(* the other role's visibility appears; the admin's dashboard applies the   *)
(* same limit without the filter and the admin listings show every row.     *)
C7_VisibilityLatest ==
    /\ ListingsUnfiltered
    /\ IsDashboard =>
         /\ \A i \in 1..Len(announcements) :
               (i \in Shown)
                  <=> /\ MaySee(RoleOf(request.user), announcements[i].visibility)
                      /\ LaterThan(i, RoleOf(request.user)) < FeedLimit
         /\ \A x \in BagToSet(events) :
               /\ CopiesIn(x, response.events) <= CopiesIn(x, events)
               /\ BagIn(x, response.events) => MaySee(RoleOf(request.user), x.visibility)
         /\ BagToSet(response.events) \subseteq BagToSet(events)
         /\ \/ BagCardinality(response.events) = FeedLimit
            \/ \A x \in EventsSeen(RoleOf(request.user)) :
                  CopiesIn(x, response.events) = CopiesIn(x, events)
         /\ \A x \in BagToSet(response.events), y \in EventsSeen(RoleOf(request.user)) :
               CopiesIn(y, response.events) < CopiesIn(y, events)
                  => DayNumber(y.date) <= DayNumber(x.date)

(* A teacher's dashboard over seven announcements: the student's one is    *)
(* left out, and so is the oldest of the six the teacher may see            *)
C7_Witness ==
    /\ IsDashboard
    /\ RoleOf(request.user) = "teacher"
    /\ Len(announcements) = 7
    /\ announcements[1].visibility = "teacher"
    /\ announcements[4].visibility = "student"
    /\ \A i \in (1..7) \ {4} : announcements[i].visibility \in {"teacher", "all"}
    /\ Shown = {2, 3, 5, 6, 7}

-----------------------------------------------------------------------------
(* Specification SpecCrud: nobody logged in (0), the admin 1, the teacher 2 *)
(* and the student 3 request every create, edit and delete view, with GET   *)
(* and with POST, the admin's POST also with fields left empty, dates that  *)
(* are none and keys that name no row.  The school holds a second admin 7,  *)
(* assignments of the teachers 2 and 6, a mark, an announcement and an      *)
(* event.  Every request is made of this school: a request that changed a  *)
(* table is the last one.                                                   *)

CrudStore ==
    [users            |-> SchoolUsers \cup {UserRow(7, "admin", NoAdmission, <<"a">>, 0, 0, 0, 0)},
     departments      |-> SchoolCourse.departments,
     courses          |-> SchoolCourse.courses,
     subjects         |-> SchoolCourse.subjects,
     classes          |-> SchoolCourse.classes,
     semesters        |-> SchoolSemesters,
     teacher_subjects |-> SetToBag({Assignment(2, 1, 1), Assignment(6, 2, 2)}),
     marks            |-> SetToBag({MarkRow(MarkKey(5, 2, 6, 2, 1), 8500, "B")}),
     announcements    |-> <<[visibility |-> "all"]>>,
     events           |-> SetToBag({EventRow(<<2024, 1, 10>>, "all")})]

Stored ==
    [users |-> users, departments |-> departments, courses |-> courses,
     subjects |-> subjects, classes |-> classes, semesters |-> semesters,
     teacher_subjects |-> teacher_subjects, marks |-> marks,
     announcements |-> announcements, events |-> events]

InitCrud ==
    /\ users = CrudStore.users
    /\ departments = CrudStore.departments
    /\ courses = CrudStore.courses
    /\ subjects = CrudStore.subjects
    /\ classes = CrudStore.classes
    /\ semesters = CrudStore.semesters
    /\ teacher_subjects = CrudStore.teacher_subjects
    /\ marks = CrudStore.marks
    /\ announcements = CrudStore.announcements
    /\ events = CrudStore.events
    /\ inflight = {}
    /\ orm_update_fields = FALSE
    /\ request = NoRequest
    /\ response = NoResponse

Near == Stored = CrudStore

Actors == {0, 1, 2, 3}

(* The admin's POST tries every input, the other requests the first one *)
Tries(uid, method, input, first) == (uid = 1 /\ method = "POST") \/ input = first

NextCrud ==
    \/ \E uid \in Actors, method \in Methods :
          Near /\ student_create(1, uid, method)
    \/ \E department_id \in {1, 0} :
          Near /\ student_create_insert(1, <<"s">>, department_id, 1, 1, 1)
    \/ \E uid \in Actors, method \in Methods, pk \in {5, 9}, department_id \in {1, 0} :
          /\ Near /\ Tries(uid, method, <<pk, department_id>>, <<5, 1>>)
          /\ student_update(uid, method, pk, <<"n">>, department_id, 1, 1, 1)
    \/ \E uid \in Actors, method \in Methods, pk \in {5, 9} :
          Near /\ Tries(uid, method, pk, 5) /\ student_delete(uid, method, pk)
    \/ \E uid \in Actors, method \in Methods, department_id \in {1, 0} :
          /\ Near /\ Tries(uid, method, department_id, 1)
          /\ teacher_create(uid, method, <<"n">>, department_id)
    \/ \E uid \in Actors, method \in Methods, pk \in {6, 9}, department_id \in {1, 0} :
          /\ Near /\ Tries(uid, method, <<pk, department_id>>, <<6, 1>>)
          /\ teacher_update(uid, method, pk, <<"n">>, department_id)
    \/ \E uid \in Actors, method \in Methods, pk \in {6, 9} :
          Near /\ Tries(uid, method, pk, 6) /\ teacher_delete(uid, method, pk)
    \/ \E uid \in Actors, method \in Methods, pk \in {7, 9} :
          Near /\ Tries(uid, method, pk, 7) /\ admin_update(uid, method, pk, <<"n">>)
    \/ \E uid \in Actors, method \in Methods, pk \in {7, 9} :
          Near /\ Tries(uid, method, pk, 7) /\ admin_delete(uid, method, pk)
    \/ \E uid \in Actors, method \in Methods : Near /\ profile_settings(uid, method, <<"n">>)
    \/ \E uid \in Actors, method \in Methods, name \in {<<"N">>, <<" ">>, <<"S", "c">>} :
          /\ Near /\ Tries(uid, method, name, <<"N">>)
          /\ department_create(uid, method, name)
    \/ \E uid \in Actors, method \in Methods, pk \in {1, 9}, name \in {<<"N">>, Str0} :
          /\ Near /\ Tries(uid, method, <<pk, name>>, <<1, <<"N">>>>)
          /\ department_edit(uid, method, pk, name)
    \/ \E uid \in Actors, method \in Methods, pk \in {1, 9} :
          Near /\ Tries(uid, method, pk, 1) /\ department_delete(uid, method, pk)
    \/ \E uid \in Actors, method \in Methods, name \in {<<"N">>, Str0}, d \in {1, 0, 9} :
          /\ Near /\ Tries(uid, method, <<name, d>>, <<<<"N">>, 1>>)
          /\ course_create(uid, method, name, d)
    \/ \E uid \in Actors, method \in Methods, pk \in {1, 9}, d \in {1, 0} :
          /\ Near /\ Tries(uid, method, <<pk, d>>, <<1, 1>>)
          /\ course_edit(uid, method, pk, <<"N">>, d)
    \/ \E uid \in Actors, method \in Methods, pk \in {1, 9} :
          Near /\ Tries(uid, method, pk, 1) /\ course_delete(uid, method, pk)
    \/ \E uid \in Actors, method \in Methods, name \in {<<"N">>, Str0}, c \in {1, 0, 9} :
          /\ Near /\ Tries(uid, method, <<name, c>>, <<<<"N">>, 1>>)
          /\ class_create(uid, method, name, c)
    \/ \E uid \in Actors, method \in Methods, pk \in {2, 9}, c \in {1, 0} :
          /\ Near /\ Tries(uid, method, <<pk, c>>, <<2, 1>>)
          /\ class_edit(uid, method, pk, <<"N">>, c)
    \/ \E uid \in Actors, method \in Methods, pk \in {2, 9} :
          Near /\ Tries(uid, method, pk, 2) /\ class_delete(uid, method, pk)
    \/ \E uid \in Actors, method \in Methods, name \in {<<"N">>, Str0}, c \in {1, 0, 9} :
          /\ Near /\ Tries(uid, method, <<name, c>>, <<<<"N">>, 1>>)
          /\ subject_create(uid, method, name, c)
    \/ \E uid \in Actors, method \in Methods, pk \in {2, 9}, c \in {1, 0} :
          /\ Near /\ Tries(uid, method, <<pk, c>>, <<2, 1>>)
          /\ subject_edit(uid, method, pk, <<"N">>, c)
    \/ \E uid \in Actors, method \in Methods, pk \in {2, 9} :
          Near /\ Tries(uid, method, pk, 2) /\ subject_delete(uid, method, pk)
    \/ \E uid \in Actors, method \in Methods, sd \in {JanuaryPadded, Str0, FebruaryThirty, June} :
          /\ Near /\ Tries(uid, method, sd, JanuaryPadded)
          /\ semester_create(uid, method, <<"S", "2">>, sd, JuneShort)
    \/ \E uid \in Actors, method \in Methods, pk \in {1, 9}, name \in {<<"S", "2">>, <<" ">>} :
          /\ Near /\ Tries(uid, method, <<pk, name>>, <<1, <<"S", "2">>>>)
          /\ semester_edit(uid, method, pk, name, JanuaryPadded, June)
    \/ \E uid \in Actors, method \in Methods, pk \in {1, 9} :
          Near /\ Tries(uid, method, pk, 1) /\ semester_delete(uid, method, pk)
    \/ \E uid \in Actors, method \in Methods :
          Near /\ announcement_create(uid, method, "teacher")
    \/ \E uid \in Actors, method \in Methods, pk \in {1, 9} :
          Near /\ Tries(uid, method, pk, 1) /\ announcement_edit(uid, method, pk, "student")
    \/ \E uid \in Actors, method \in Methods, pk \in {1, 9} :
          Near /\ Tries(uid, method, pk, 1) /\ announcement_delete(uid, method, pk)
    \/ \E uid \in Actors, method \in Methods, date \in {June, Str0, FebruaryThirty} :
          /\ Near /\ Tries(uid, method, date, June)
          /\ event_create(uid, method, date, "all")
    \/ \E uid \in Actors, method \in Methods, row \in BagToSet(CrudStore.events),
          date \in {June, Str0, FebruaryThirty} :
          /\ Near /\ Tries(uid, method, date, June)
          /\ event_edit(uid, method, row, date, "all")
    \/ \E uid \in Actors, method \in Methods, row \in BagToSet(CrudStore.events) :
          Near /\ event_delete(uid, method, row)
    \/ \E uid \in Actors, method \in Methods, row \in BagToSet(CrudStore.teacher_subjects) :
          Near /\ delete_teacher_subject(uid, method, row)

SpecCrud == InitCrud /\ [][NextCrud]_vars

FormViews ==
    {"student_create", "student_update", "teacher_create", "teacher_update", "admin_update",
     "department_create", "department_edit", "course_create", "course_edit",
     "class_create", "class_edit", "subject_create", "subject_edit",
     "semester_create", "semester_edit", "announcement_create", "announcement_edit",
     "event_create", "event_edit"}

DeleteViews ==
    {"student_delete", "teacher_delete", "admin_delete", "department_delete",
     "course_delete", "class_delete", "subject_delete", "semester_delete",
     "announcement_delete", "event_delete"}

(* The tables of the entities the admin manages *)
entities == <<users, academics, semesters, announcements, events>>

(* C18 as stated: a request to a create, edit or delete view of students,   *)
(* teachers, admins, departments, courses, classes, subjects, semesters,    *)
(* announcements and events by nobody logged in or by a user who is no      *)
(* admin leaves the store unchanged and is answered with a redirect to the  *)
(* login; and only a request of an admin changes these entities.            *)
C18_AdminOnly ==
    [][/\ (request'.view \in FormViews \cup DeleteViews /\ RoleOf(request'.user) # "admin")
          => (UNCHANGED store /\ response'.status = "redirect_login")
       /\ entities' # entities => RoleOf(request'.user) = "admin"]_vars

(* C18, amended: as C18, but these entities are changed by the request of   *)
(* an admin or by a POST of a logged-in user to profile_settings, which     *)
(* changes the names in the row of that user and nothing else.              *)
C18_AdminOrOwnProfile ==
    [][/\ (request'.view \in FormViews \cup DeleteViews /\ RoleOf(request'.user) # "admin")
          => (UNCHANGED store /\ response'.status = "redirect_login")
       /\ entities' # entities
          => \/ RoleOf(request'.user) = "admin"
             \/ /\ request'.view = "profile_settings"
                /\ request'.method = "POST"
                /\ IsAuthenticated(request'.user)
                /\ UNCHANGED <<academics, semesters, announcements, events, teacher_subjects,
                               marks>>
                /\ \E u \in users :
                      /\ u.id = request'.user
                      /\ users' = (users \ {u})
                                  \cup {[u EXCEPT !.first_name = Strip(request'.name)]}]_vars

(* The teacher 2 sent a POST to department_delete for the department 1 and  *)
(* was sent to the login; the school is as it was                           *)
C18_Witness ==
    /\ request.view = "department_delete"
    /\ request.user = 2
    /\ request.method = "POST"
    /\ request.pk = 1
    /\ response.status = "redirect_login"
    /\ Stored = CrudStore

(* The row an edit form is about exists *)
Editable(req) ==
    CASE req.view = "department_edit" -> req.pk \in Ids(departments)
      [] req.view = "course_edit"     -> req.pk \in Ids(courses)
      [] req.view = "class_edit"      -> req.pk \in Ids(classes)
      [] req.view = "subject_edit"    -> req.pk \in Ids(subjects)
      [] req.view = "semester_edit"   -> req.pk \in Ids(semesters)
      [] req.view = "teacher_update"  -> UserExists(req.pk, "teacher")
      [] req.view = "event_edit"      -> BagIn(req.row, events)
      [] OTHER                        -> TRUE

(* The form misses a required field, or holds a text that is no date, or a  *)
(* start date after the end date                                            *)
Invalid(req) ==
    CASE req.view \in {"department_create", "department_edit"} ->
            Strip(req.name) = Str0
      [] req.view \in {"course_create", "course_edit", "class_create", "class_edit",
                       "subject_create", "subject_edit"} ->
            Strip(req.name) = Str0 \/ req.parent = 0
      [] req.view \in {"teacher_create", "teacher_update"} ->
            req.parent = 0
      [] req.view \in {"semester_create", "semester_edit"} ->
            \/ Str0 \in {Strip(req.name), Strip(req.start_date), Strip(req.end_date)}
            \/ ~ParseDate(Strip(req.start_date)).ok
            \/ ~ParseDate(Strip(req.end_date)).ok
            \/ DateGT(ParseDate(Strip(req.start_date)).date,
                      ParseDate(Strip(req.end_date)).date)
      [] req.view \in {"event_create", "event_edit"} ->
            ~ParseDate(Strip(req.date)).ok
      [] OTHER -> FALSE

InvalidPost(req, views) ==
    /\ req.view \in views
    /\ req.method = "POST"
    /\ RoleOf(req.user) = "admin"
    /\ Editable(req)
    /\ Invalid(req)

(* C19: a POST of the admin to a create or edit form that misses a required *)
(* field, holds a malformed date or a start date after the end date creates *)
(* and changes no row and is answered with the error message and the        *)
(* redirect back to the form, never with an exception.                      *)
C19_ValidationCaught ==
    [][InvalidPost(request', FormViews)
          => (UNCHANGED store /\ response'.status = "rejected")]_vars

(* C19 for the forms of departments, courses, classes, subjects and         *)
(* semesters, whose views test the fields themselves                        *)
C19_Validated ==
    [][InvalidPost(request', {"department_create", "department_edit", "course_create",
                              "course_edit", "class_create", "class_edit",
                              "subject_create", "subject_edit", "semester_create",
                              "semester_edit"})
          => (UNCHANGED store /\ response'.status = "rejected")]_vars

(* The admin's event form with the date 2024-02-30 ended in a server error *)
C19_EventError ==
    /\ request.view = "event_create"
    /\ request.user = 1
    /\ request.method = "POST"
    /\ request.date = FebruaryThirty
    /\ response.status = "500"
    /\ Stored = CrudStore

(* The user may delete with the request: an admin, or, for                  *)
(* delete_teacher_subject, a teacher                                        *)
MayDelete(req) ==
    \/ req.view \in DeleteViews /\ RoleOf(req.user) = "admin"
    \/ req.view = "delete_teacher_subject" /\ RoleOf(req.user) = "teacher"

(* A table lost a row in the step *)
RowDeleted ==
    \/ \E f \in {"users", "departments", "courses", "subjects", "classes", "semesters"} :
          ~(Ids(Stored[f]) \subseteq Ids(Stored[f]'))
    \/ BagCardinality(teacher_subjects') < BagCardinality(teacher_subjects)
    \/ BagCardinality(marks') < BagCardinality(marks)
    \/ BagCardinality(events') < BagCardinality(events)
    \/ Len(announcements') < Len(announcements)

(* C20, the frame: a GET to a delete view changes no table, and a row is    *)
(* deleted only in a POST to a delete view from a user who may delete.      *)
C20_Frame ==
    [][/\ (request'.view \in DeleteViews \cup {"delete_teacher_subject"}
           /\ request'.method = "GET") => UNCHANGED store
       /\ RowDeleted => /\ request'.view \in DeleteViews \cup {"delete_teacher_subject"}
                        /\ request'.method = "POST"
                        /\ MayDelete(request')]_vars

(* C20: the frame, and a GET to a delete view from a user who may delete,   *)
(* for a row that exists, renders the confirmation page.                    *)
C20_GetConfirms ==
    [][/\ (request'.view \in DeleteViews \cup {"delete_teacher_subject"}
           /\ request'.method = "GET")
          => /\ UNCHANGED store
             /\ (MayDelete(request') /\ response'.status # "404")
                => response'.status = "render"
       /\ RowDeleted => /\ request'.view \in DeleteViews \cup {"delete_teacher_subject"}
                        /\ request'.method = "POST"
                        /\ MayDelete(request')]_vars

(* The teacher 2 sent a GET to delete_teacher_subject for their assignment  *)
(* (subject 1, class 1): no page, a server error; the row is still there    *)
C20_NoConfirmation ==
    /\ request.view = "delete_teacher_subject"
    /\ request.user = 2
    /\ request.method = "GET"
    /\ request.subject = 1
    /\ response.status = "500"
    /\ Stored = CrudStore

-----------------------------------------------------------------------------
(* Specification SpecAccounts: the accounts of an admin, a teacher and a    *)
(* student are edited and deleted and a teacher is added, by the views and  *)
(* by the change form of the admin site, in any order.  A primary key is    *)
(* one of the three.                                                        *)

Accounts == {u \in SchoolUsers : u.id \in {1, 2, 3}}

InitAccounts ==
    /\ users = Accounts
    /\ departments = SchoolCourse.departments
    /\ courses = SchoolCourse.courses
    /\ subjects = SchoolCourse.subjects
    /\ classes = SchoolCourse.classes
    /\ semesters = SchoolSemesters
    /\ teacher_subjects = EmptyBag
    /\ marks = EmptyBag
    /\ announcements = <<>>
    /\ events = EmptyBag
    /\ inflight = {}
    /\ orm_update_fields = FALSE
    /\ request = NoRequest
    /\ response = NoResponse

AccountIds == Ids(Accounts)

(* The next primary key is one of the three *)
Vacant == NewId(users) \in AccountIds

NextAccounts ==
    \/ \E uid \in {1, 3}, pk \in AccountIds :
          student_update(uid, "POST", pk, <<"n">>, 1, 1, 2, 1)
    \/ \E uid \in {1, 2}, pk \in AccountIds : teacher_update(uid, "POST", pk, <<"n">>, 1)
    \/ \E uid \in {1, 2}, pk \in AccountIds : admin_update(uid, "POST", pk, <<"n">>)
    \/ \E uid \in AccountIds, method \in Methods : profile_settings(uid, method, <<"n">>)
    \/ \E pk \in AccountIds \ {1} : student_delete(1, "POST", pk)
    \/ \E pk \in AccountIds \ {1} : teacher_delete(1, "POST", pk)
    \/ \E pk \in AccountIds \ {1} : admin_delete(1, "POST", pk)
    \/ Vacant /\ teacher_create(1, "POST", <<"t">>, 1)
    \/ \E pk \in AccountIds \ {1}, role \in {"admin", "teacher", "student"} :
          \E adm \in {NoAdmission, AdmissionNumber(1)} :
              /\ pk = 3 \/ adm = NoAdmission
              /\ admin_site_change_user(pk, role, adm)

SpecAccounts == InitAccounts /\ [][NextAccounts]_vars

EditViews == {"student_update", "teacher_update", "admin_update", "profile_settings"}

(* The rows of a step's two stores that are one user *)
SameUser(u, v) == u \in users /\ v \in users' /\ u.id = v.id

(* C21: student_update, teacher_update, admin_update and profile_settings  *)
(* leave the role and the admission number of the edited user unchanged,    *)
(* and no request changes the role of a user who exists before and after    *)
(* it.                                                                      *)
C21_RoleFixed ==
    [][\A u \in users, v \in users' :
          SameUser(u, v) =>
              /\ u.role = v.role
              /\ request'.view \in EditViews
                    => u.admission_number = v.admission_number]_vars

(* C21 as the code has it: the four edit views leave the role and the       *)
(* admission number unchanged, and no request to a view of views.py changes *)
(* the role of an existing user; the change form of the admin site assigns  *)
(* any role and any free admission number to an existing user.              *)
C21_RoleFixedInViews ==
    [][\A u \in users, v \in users' :
          SameUser(u, v) =>
              /\ request'.view # "admin:user_change" => u.role = v.role
              /\ request'.view \in EditViews
                    => u.admission_number = v.admission_number
              /\ (request'.view = "admin:user_change" /\ response'.status = "saved"
                     /\ u.id = request'.pk)
                    => /\ v.role = request'.role
                       /\ v.admission_number = request'.admission_number]_vars

(* The student 3, edited by the admin and then by themselves, is a student  *)
(* with the number given at creation                                        *)
C21_Witness ==
    /\ request.view = "profile_settings"
    /\ request.user = 3
    /\ response.status = "saved"
    /\ \E u \in users : /\ u.id = 3
                        /\ u.first_name = <<"n">>
                        /\ u.school_class = 2
                        /\ u.role = "student"
                        /\ u.admission_number = AdmissionNumber(1)

(* The admin site made the teacher 2 an admin *)
C21_RoleChanged ==
    /\ request.view = "admin:user_change"
    /\ response.status = "saved"
    /\ request.pk = 2
    /\ \E u \in users : u.id = 2 /\ u.role = "admin"

-----------------------------------------------------------------------------
(* Specification SpecCascade: the admin deletes and creates departments,    *)
(* courses, classes, subjects, semesters, students and teachers in any      *)
(* order, in a school with a teacher, a student in each class, a mark of    *)
(* each student and the teacher's assignments.  A row is created when the   *)
(* store gives it a primary key the school had at the start.                *)

CascadeStore ==
    [users            |-> {u \in SchoolUsers : u.id \in {1, 2, 3, 5}},
     departments      |-> SchoolCourse.departments,
     courses          |-> SchoolCourse.courses,
     subjects         |-> SchoolCourse.subjects,
     classes          |-> SchoolCourse.classes,
     semesters        |-> SchoolSemesters,
     teacher_subjects |-> SetToBag({Assignment(2, 1, 1), Assignment(2, 2, 2)}),
     marks            |-> SetToBag({MarkRow(MarkKey(3, 1, 2, 1, 1), 7000, "C"),
                                    MarkRow(MarkKey(5, 2, 2, 2, 1), 8500, "B")})]

InitCascade ==
    /\ users = CascadeStore.users
    /\ departments = CascadeStore.departments
    /\ courses = CascadeStore.courses
    /\ subjects = CascadeStore.subjects
    /\ classes = CascadeStore.classes
    /\ semesters = CascadeStore.semesters
    /\ teacher_subjects = CascadeStore.teacher_subjects
    /\ marks = CascadeStore.marks
    /\ announcements = <<>>
    /\ events = EmptyBag
    /\ inflight = {}
    /\ orm_update_fields = FALSE
    /\ request = NoRequest
    /\ response = NoResponse

(* The next row of the table gets a primary key of the school *)
Refill(rows, table) == NewPk(rows) \in Ids(CascadeStore[table])

(* The requests are served one after another *)
Idle == inflight = {}

NextCascade ==
    \/ \E pk \in Ids(departments) : Idle /\ department_delete(1, "POST", pk)
    \/ \E pk \in Ids(courses) : Idle /\ course_delete(1, "POST", pk)
    \/ \E pk \in Ids(classes) : Idle /\ class_delete(1, "POST", pk)
    \/ \E pk \in Ids(subjects) : Idle /\ subject_delete(1, "POST", pk)
    \/ \E pk \in Ids(semesters) : Idle /\ semester_delete(1, "POST", pk)
    \/ \E pk \in Ids(users) \ {1} : Idle /\ student_delete(1, "POST", pk)
    \/ \E pk \in Ids(users) \ {1} : Idle /\ teacher_delete(1, "POST", pk)
    \/ /\ Idle /\ Refill(departments, "departments")
       /\ department_create(1, "POST", <<"S", "c">>)
    \/ \E d \in {1, 2} :
          Idle /\ Refill(courses, "courses") /\ course_create(1, "POST", <<"P", "h">>, d)
    \/ \E c \in {1, 2} :
          Idle /\ Refill(classes, "classes") /\ class_create(1, "POST", <<"1", "0">>, c)
    \/ \E c \in {1, 2} :
          Idle /\ Refill(subjects, "subjects") /\ subject_create(1, "POST", <<"M">>, c)
    \/ /\ Idle /\ Refill(semesters, "semesters")
       /\ semester_create(1, "POST", <<"S", "1">>, JanuaryPadded, June)
    \/ Idle /\ Refill(users, "users") /\ student_create(1, 1, "POST")
    \/ \E cl \in {1, 2} : student_create_insert(1, <<"s">>, 1, 1, cl, 1)
    \/ Idle /\ Refill(users, "users") /\ teacher_create(1, "POST", <<"t">>, 1)

SpecCascade == InitCascade /\ [][NextCascade]_vars

(* The foreign keys of the rows of the bag b listed in flds name rows of    *)
(* the table `rows`                                                         *)
Refers(b, flds, rows) == \A r \in BagToSet(b) : \A fld \in flds : r[fld] \in Ids(rows)

(* Every reference of Mark, TeacherSubject, Course, SchoolClass and Subject *)
(* names a stored row, and so does every reference of a user that is not    *)
(* null                                                                     *)
Integrity ==
    /\ Refers(marks, {"student", "teacher"}, users)
    /\ Refers(marks, {"subject"}, subjects)
    /\ Refers(marks, {"school_class"}, classes)
    /\ Refers(marks, {"semester"}, semesters)
    /\ Refers(teacher_subjects, {"teacher"}, users)
    /\ Refers(teacher_subjects, {"subject"}, subjects)
    /\ Refers(teacher_subjects, {"school_class"}, classes)
    /\ \A c \in courses : c.department \in Ids(departments)
    /\ \A k \in classes \cup subjects : k.course \in Ids(courses)
    /\ \A u \in users : /\ u.department \in Ids(departments) \cup {0}
                         /\ u.course \in Ids(courses) \cup {0}
                         /\ u.school_class \in Ids(classes) \cup {0}
                         /\ u.semester \in Ids(semesters) \cup {0}

AcademicDeletes ==
    {"department_delete", "course_delete", "class_delete", "subject_delete",
     "semester_delete"}

(* C28: after any sequence of create and delete requests on departments,    *)
(* courses, classes, subjects, semesters, students and teachers, every      *)
(* Mark and TeacherSubject row refers to stored users, subjects, classes    *)
(* and semesters and every Course, SchoolClass and Subject to a stored      *)
(* parent; a delete of a department, course, class, subject or semester     *)
(* keeps every user, with the references that lost their row set to null    *)
(* and the others as they were.                                             *)
C28_Cascade ==
    [][/\ Integrity'
       /\ request'.view \in AcademicDeletes
             => /\ Ids(users') = Ids(users)
                /\ \A u \in users, v \in users' :
                      u.id = v.id
                        => /\ v.role = u.role
                           /\ v.admission_number = u.admission_number
                           /\ v.department \in {u.department, 0}
                           /\ v.course \in {u.course, 0}
                           /\ v.school_class \in {u.school_class, 0}
                           /\ v.semester \in {u.semester, 0}]_vars

(* The department was deleted, which left no course, class, subject,        *)
(* assignment or mark and the teacher without department, and set up        *)
(* again; a student registered in the new class 1 after the two students    *)
(* were deleted                                                             *)
C28_Witness ==
    /\ request.view = "student_create"
    /\ response.status = "saved"
    /\ Ids(departments) = {1} /\ Ids(courses) = {1} /\ Ids(classes) = {1}
    /\ subjects = {}
    /\ marks = EmptyBag /\ teacher_subjects = EmptyBag
    /\ \E u \in users : u.role = "teacher" /\ u.department = 0
    /\ \E u \in users : u.role = "student" /\ u.school_class = 1 /\ u.department = 1

-----------------------------------------------------------------------------
(* Specification SpecGrade: the two grade functions applied to every score  *)
(* a Mark row can hold between the validators' bounds.                      *)

ValidScores == (MinScore * (10 ^ DecimalPlaces))..(MaxScore * (10 ^ DecimalPlaces))

InitGrade ==
    /\ EmptyStore
    /\ inflight = {}
    /\ orm_update_fields = FALSE
    /\ request \in {[view |-> "grade", score |-> n] : n \in ValidScores}
    /\ response = NoResponse

GradeScore ==
    /\ request.view = "grade"
    /\ response = NoResponse
    /\ response' = [status |-> "grade",
                    calculate_grade |->
                        calculate_grade(PyNum(request.score, DecimalPlaces)),
                    get_grade_and_gpa |->
                        get_grade_and_gpa(PyNum(request.score, DecimalPlaces))]
    /\ UNCHANGED <<store, inflight, orm_update_fields, request>>

NextGrade == GradeScore

SpecGrade == InitGrade /\ [][NextGrade]_vars

(* C1: for every score s in 0..100, Mark.calculate_grade and                *)
(* get_grade_and_gpa return "A" iff s >= 90, "B" iff 80 <= s < 90, "C" iff  *)
(* 70 <= s < 80, "D" iff 60 <= s < 70, "F" iff s < 60, and                  *)
(* get_grade_and_gpa returns the grade points 4, 3, 2, 1, 0 for A..F.       *)
C1_GradeThresholds ==
    response.status = "grade" =>
        LET h == request.score
            m == response.calculate_grade
            v == response.get_grade_and_gpa
        IN  /\ (m = "A") <=> (h >= 9000)
            /\ (m = "B") <=> (8000 <= h /\ h < 9000)
            /\ (m = "C") <=> (7000 <= h /\ h < 8000)
            /\ (m = "D") <=> (6000 <= h /\ h < 7000)
            /\ (m = "F") <=> (h < 6000)
            /\ ~v.raised
            /\ v.grade = m
            /\ v.gpa = (CASE m = "A" -> 4 [] m = "B" -> 3 [] m = "C" -> 2
                          [] m = "D" -> 1 [] OTHER -> 0)

C1_Witness ==
    /\ response.status = "grade"
    /\ request.score = 8999
    /\ response.calculate_grade = "B"
    /\ response.get_grade_and_gpa.gpa = 3

=============================================================================
